---- MODULE Spec2Model ----
(***************************************************************************)
(* Model of the release-intelligence pipeline of rancher-release-bot:      *)
(* main.py (orchestrator), ai_analyzer.py (analysis engine and the         *)
(* repair-tolerant parser), database.py (SQLite store), slack_bot.py       *)
(* (notification router) and integrations.py (escalation manager).         *)
(*                                                                         *)
(* Python values that travel through the pipeline are JSON values.  A JSON *)
(* value is a record [t, s, l]: t is the Python type of the value, s its   *)
(* text (strings, numbers, dict keys), l its children (list items, dict    *)
(* items).  A dict is the sequence of its items in insertion order, each   *)
(* item a "pair" whose s is the key and whose l holds the one value.       *)
(* Text (a completion response, a TEXT column of the store) is a sequence  *)
(* of tokens [k, s]: punctuation, string, number and literal tokens,       *)
(* whitespace, Markdown fences and prose that is not JSON.                 *)
(***************************************************************************)
EXTENDS Integers, Sequences, FiniteSets, TLC

\* ------------------------------------------------------------------------
\* Python / JSON values
\* ------------------------------------------------------------------------

JStr(x) == [t |-> "str", s |-> x, l |-> <<>>]

JNum(x) == [t |-> "num", s |-> x, l |-> <<>>]

JNull == [t |-> "null", s |-> "", l |-> <<>>]

JList(items) == [t |-> "list", s |-> "", l |-> items]

JPair(key, val) == [t |-> "pair", s |-> key, l |-> <<val>>]

JObj(pairs) == [t |-> "obj", s |-> "", l |-> pairs]

EmptyList == JList(<<>>)

EmptyDict == JObj(<<>>)

IsDict(v) == v.t = "obj"

IsList(v) == v.t = "list"

IsStr(v) == v.t = "str"

\* key in d
HasKey(d, key) == IsDict(d) /\ \E i \in 1..Len(d.l) : d.l[i].s = key

\* d.get(key, default)
DictGet(d, key, default) ==
    IF HasKey(d, key)
    THEN d.l[CHOOSE i \in 1..Len(d.l) : d.l[i].s = key].l[1]
    ELSE default

\* d[key] = val : an existing key keeps its position, a new key goes last
DictSet(d, key, val) ==
    IF HasKey(d, key)
    THEN JObj([i \in 1..Len(d.l) |->
                 IF d.l[i].s = key THEN JPair(key, val) ELSE d.l[i]])
    ELSE JObj(Append(d.l, JPair(key, val)))

\* bool(v)
Truthy(v) ==
    CASE v.t = "null" -> FALSE
      [] v.t = "str" -> v.s # ""
      [] v.t = "num" -> v.s # "0"
      [] OTHER -> Len(v.l) > 0

\* seq[:n]
Take(seq, n) == SubSeq(seq, 1, IF Len(seq) < n THEN Len(seq) ELSE n)

\* ------------------------------------------------------------------------
\* Text as tokens; json.dumps and json.loads
\* ------------------------------------------------------------------------

Tok(kind, text) == [k |-> kind, s |-> text]

P(c) == Tok("p", c)

Ws == Tok("ws", " ")

Nl == Tok("ws", "\n")

FenceJson == Tok("fence", "json")

Fence == Tok("fence", "")

Prose(x) == Tok("prose", x)

RECURSIVE Dumps(_)
RECURSIVE DumpsItems(_, _)
\* json.dumps(v, ensure_ascii=False): a space follows every comma and colon
Dumps(v) ==
    CASE v.t = "str" -> <<Tok("str", v.s)>>
      [] v.t = "num" -> <<Tok("num", v.s)>>
      [] v.t = "null" -> <<Tok("lit", "null")>>
      [] v.t = "list" -> <<P("[")>> \o DumpsItems(v.l, 1) \o <<P("]")>>
      [] v.t = "obj" -> <<P("{")>> \o DumpsItems(v.l, 1) \o <<P("}")>>
      [] v.t = "pair" -> <<Tok("str", v.s), P(":"), Ws>> \o Dumps(v.l[1])

DumpsItems(items, i) ==
    IF i > Len(items) THEN <<>>
    ELSE Dumps(items[i])
         \o (IF i < Len(items) THEN <<P(","), Ws>> ELSE <<>>)
         \o DumpsItems(items, i + 1)

ParseOk(val, next) == [ok |-> TRUE, v |-> val, n |-> next, msg |-> ""]

ParseErr(message, at) == [ok |-> FALSE, v |-> JNull, n |-> at, msg |-> message]

RECURSIVE SkipWs(_, _)
SkipWs(toks, i) ==
    IF i <= Len(toks) /\ toks[i].k = "ws" THEN SkipWs(toks, i + 1) ELSE i

RECURSIVE ParseValue(_, _)
RECURSIVE ParseItems(_, _, _)
RECURSIVE ParseMembers(_, _, _)
\* the scan of one JSON value starting at token i
ParseValue(toks, i) ==
    LET j == SkipWs(toks, i) IN
    IF j > Len(toks) THEN ParseErr("Expecting value", j)
    ELSE CASE toks[j].k = "str" -> ParseOk(JStr(toks[j].s), j + 1)
           [] toks[j].k = "num" -> ParseOk(JNum(toks[j].s), j + 1)
           [] toks[j] = Tok("lit", "null") -> ParseOk(JNull, j + 1)
           [] toks[j] = P("[") ->
                LET k == SkipWs(toks, j + 1) IN
                IF k <= Len(toks) /\ toks[k] = P("]")
                THEN ParseOk(EmptyList, k + 1)
                ELSE ParseItems(toks, k, <<>>)
           [] toks[j] = P("{") ->
                LET k == SkipWs(toks, j + 1) IN
                IF k <= Len(toks) /\ toks[k] = P("}")
                THEN ParseOk(EmptyDict, k + 1)
                ELSE ParseMembers(toks, k, EmptyDict)
           [] OTHER -> ParseErr("Expecting value", j)

ParseItems(toks, i, acc) ==
    LET r == ParseValue(toks, i) IN
    IF ~r.ok THEN r
    ELSE LET k == SkipWs(toks, r.n) IN
         IF k > Len(toks) THEN ParseErr("Expecting ',' delimiter", k)
         ELSE IF toks[k] = P(",") THEN ParseItems(toks, k + 1, Append(acc, r.v))
         ELSE IF toks[k] = P("]") THEN ParseOk(JList(Append(acc, r.v)), k + 1)
         ELSE ParseErr("Expecting ',' delimiter", k)

ParseMembers(toks, i, acc) ==
    LET j == SkipWs(toks, i) IN
    IF j > Len(toks) \/ toks[j].k # "str"
    THEN ParseErr("Expecting property name enclosed in double quotes", j)
    ELSE LET c == SkipWs(toks, j + 1) IN
         IF c > Len(toks) \/ toks[c] # P(":")
         THEN ParseErr("Expecting ':' delimiter", c)
         ELSE LET r == ParseValue(toks, c + 1) IN
              IF ~r.ok THEN r
              ELSE LET k == SkipWs(toks, r.n)
                       d == DictSet(acc, toks[j].s, r.v) IN
                   IF k > Len(toks) THEN ParseErr("Expecting ',' delimiter", k)
                   ELSE IF toks[k] = P(",") THEN ParseMembers(toks, k + 1, d)
                   ELSE IF toks[k] = P("}") THEN ParseOk(d, k + 1)
                   ELSE ParseErr("Expecting ',' delimiter", k)

\* json.loads(text): one value, then nothing but whitespace
Loads(toks) ==
    LET r == ParseValue(toks, 1) IN
    IF ~r.ok THEN r
    ELSE IF SkipWs(toks, r.n) <= Len(toks) THEN ParseErr("Extra data", r.n)
    ELSE r

\* ------------------------------------------------------------------------
\* Outcomes of calls: a returned value or a raised exception
\* ------------------------------------------------------------------------

Return(val) == [raised |-> FALSE, v |-> val, msg |-> ""]

Raise(message) == [raised |-> TRUE, v |-> JNull, msg |-> message]

\* What the completion service does on one generate_content call: it raises,
\* or it returns a response whose text is a sequence of tokens.
ServiceRaises(message) == [raises |-> TRUE, text |-> <<>>, msg |-> message]

ServiceReturns(toks) == [raises |-> FALSE, text |-> toks, msg |-> ""]

\* ------------------------------------------------------------------------
\* ai_analyzer.py
\* ------------------------------------------------------------------------

RECURSIVE StripLeft(_)
StripLeft(toks) ==
    IF toks # <<>> /\ Head(toks).k = "ws" THEN StripLeft(Tail(toks)) ELSE toks

RECURSIVE StripRight(_)
StripRight(toks) ==
    IF toks # <<>> /\ toks[Len(toks)].k = "ws"
    THEN StripRight(SubSeq(toks, 1, Len(toks) - 1))
    ELSE toks

\* text.strip()
Strip(toks) == StripRight(StripLeft(toks))

RECURSIVE RemoveFence(_, _)
\* re.sub of a fence marker and the one newline that may follow it
RemoveFence(toks, fence) ==
    IF toks = <<>> THEN <<>>
    ELSE IF Head(toks) = fence
    THEN IF Len(toks) >= 2 /\ toks[2] = Nl
         THEN RemoveFence(Tail(Tail(toks)), fence)
         ELSE RemoveFence(Tail(toks), fence)
    ELSE <<Head(toks)>> \o RemoveFence(Tail(toks), fence)

\* the cleaned text: strip, drop the json fences, drop the bare fences, strip
CleanText(toks) == Strip(RemoveFence(RemoveFence(Strip(toks), FenceJson), Fence))

EndsWithBrace(toks) == toks # <<>> /\ toks[Len(toks)] = P("}")

\* text.rfind of the closing brace, as a 0-based index; -1 when there is none
RFindBrace(toks) ==
    LET at == {i \in 1..Len(toks) : toks[i] = P("}")} IN
    IF at = {} THEN -1 ELSE (CHOOSE i \in at : \A j \in at : j <= i) - 1

\* variant: the cut leaves the last closing brace out
RepairedBeforeBrace(toks) ==
    IF ~EndsWithBrace(toks) /\ RFindBrace(toks) > 0
    THEN SubSeq(toks, 1, RFindBrace(toks))
    ELSE toks

\* the text the second parse is given
Repaired(toks) ==
    IF ~EndsWithBrace(toks) /\ RFindBrace(toks) > 0
    THEN SubSeq(toks, 1, RFindBrace(toks) + 1)
    ELSE toks

\* variant: the fallback is the bare error, without the Analysis fields
ParseFallbackErrorOnly(message) ==
    JObj(<< JPair("error", JStr(message)) >>)

\* the minimal structure returned when the text cannot be parsed
ParseFallback(message) ==
    JObj(<< JPair("version", JStr("unknown")),
            JPair("release_type", JStr("unknown")),
            JPair("severity", JStr("normal")),
            JPair("summary", JStr("Failed to parse analysis. Please check logs.")),
            JPair("new_features", EmptyList),
            JPair("bug_fixes", EmptyList),
            JPair("breaking_changes", EmptyList),
            JPair("security_updates", EmptyList),
            JPair("recommended_actions", JList(<<JStr("Review release manually")>>)),
            JPair("upgrade_notes",
                  JObj(<< JPair("prerequisites", EmptyList),
                          JPair("known_issues", EmptyList),
                          JPair("estimated_downtime", JStr("Unknown")) >>)),
            JPair("error", JStr(message)) >>)

\* variant: an empty dict when the repaired text does not parse either
ParseRetryEmpty(first, second) ==
    IF second.ok THEN second.v ELSE EmptyDict

\* _parse_json_response, the inner try: second is the parse of the repaired
\* text, first the failed parse whose message the fallback carries
ParseRetry(first, second) ==
    IF second.ok THEN second.v ELSE ParseFallback(first.msg)

\* _parse_json_response, the outer try: first is the parse of the cleaned text
ParseCleaned(cleaned, first) ==
    IF first.ok THEN first.v ELSE ParseRetry(first, Loads(Repaired(cleaned)))

ParseText(cleaned) == ParseCleaned(cleaned, Loads(cleaned))

\* AIAnalyzer._parse_json_response
ParseJsonResponse(text) == ParseText(CleanText(text))

EmptyResources ==
    JObj(<< JPair("documentation", EmptyList),
            JPair("kb_articles", EmptyList),
            JPair("videos", EmptyList) >>)

\* variant: the error response of the parse fallback, message dropped
CreateErrorResponseAsFallback(version, error) ==
    DictSet(ParseFallback("analysis failed"), "resources", EmptyResources)

\* AIAnalyzer._create_error_response
CreateErrorResponse(version, error) ==
    JObj(<< JPair("version", JStr(version)),
            JPair("error", JStr(error)),
            JPair("summary", JStr("Analysis failed due to error")),
            JPair("severity", JStr("unknown")),
            JPair("release_type", JStr("unknown")),
            JPair("new_features", EmptyList),
            JPair("bug_fixes", EmptyList),
            JPair("breaking_changes", EmptyList),
            JPair("security_updates", EmptyList),
            JPair("recommended_actions",
                  JList(<< JStr("Check logs for error details"),
                           JStr("Review release manually") >>)),
            JPair("upgrade_notes",
                  JObj(<< JPair("prerequisites", EmptyList),
                          JPair("known_issues", EmptyList),
                          JPair("estimated_downtime", JStr("Unknown")) >>)),
            JPair("resources", EmptyResources) >>)

\* len(v) raises for a number and for None
HasLen(v) == v.t \in {"list", "obj", "str"}

\* the statements of _find_resources before its try: the titles of the first
\* three features, joined.  The message of the exception, "" when none.
FeatureTitlesError(analysis) ==
    IF ~IsDict(analysis) THEN "object has no attribute 'get'"
    ELSE LET nf == DictGet(analysis, "new_features", EmptyList) IN
         IF IsStr(nf) /\ nf.s = "" THEN ""
         ELSE IF ~IsList(nf) THEN "new_features cannot be sliced into features"
         ELSE LET firstThree == Take(nf.l, 3) IN
              IF \E i \in 1..Len(firstThree) : ~IsDict(firstThree[i])
              THEN "feature has no attribute 'get'"
              ELSE IF \E i \in 1..Len(firstThree) :
                          ~IsStr(DictGet(firstThree[i], "title", JStr("")))
              THEN "sequence item: expected str instance"
              ELSE ""

\* _find_resources, the try after response.text was parsed: the two len()
\* calls raise on a value that has no .get or no length
ResourcesParsed(resources) ==
    IF ~IsDict(resources) THEN EmptyResources
    ELSE IF ~HasLen(DictGet(resources, "documentation", EmptyList))
            \/ ~HasLen(DictGet(resources, "videos", EmptyList))
    THEN EmptyResources
    ELSE resources

\* _find_resources once the prompt is built: lookup is what the completion
\* service does on this call
ResourcesLookup(lookup) ==
    IF lookup.raises THEN EmptyResources
    ELSE ResourcesParsed(ParseJsonResponse(lookup.text))

\* _find_resources given the outcome of building the prompt
ResourcesAfterPrompt(promptError, lookup) ==
    IF promptError # "" THEN Raise(promptError)
    ELSE Return(ResourcesLookup(lookup))

\* AIAnalyzer._find_resources
FindResources(version, analysis, lookup) ==
    ResourcesAfterPrompt(FeatureTitlesError(analysis), lookup)

\* analyze_release: analysis['resources'] = await self._find_resources(...)
AddResources(analysis, resources) ==
    IF resources.raised THEN Raise(resources.msg)
    ELSE IF ~IsDict(analysis)
    THEN Raise("object does not support item assignment")
    ELSE Return(DictSet(analysis, "resources", resources.v))

\* analyze_release after response.text was parsed
AnalyzeParsed(version, analysis, lookup) ==
    AddResources(analysis, FindResources(version, analysis, lookup))

\* the body of the try of analyze_release
AnalyzeTry(version, completion, lookup) ==
    IF completion.raises THEN Raise(completion.msg)
    ELSE AnalyzeParsed(version, ParseJsonResponse(completion.text), lookup)

\* variant: no except clause, the exception leaves analyze_release
AnalyzeExceptReraises(version, attempt) == attempt

\* the except clause of analyze_release
AnalyzeExcept(version, attempt) ==
    IF attempt.raised
    THEN Return(CreateErrorResponse(version, attempt.msg))
    ELSE attempt

\* analyze_release for the version read from release['tag_name']
AnalyzeVersion(version, completion, lookup) ==
    AnalyzeExcept(version, AnalyzeTry(version, completion, lookup))

\* AIAnalyzer.analyze_release: release is the upstream payload, a dict
AnalyzeRelease(release, completion, lookup) ==
    IF ~HasKey(release, "tag_name") THEN Raise("KeyError: 'tag_name'")
    ELSE AnalyzeVersion(DictGet(release, "tag_name", JNull).s, completion, lookup)

\* ------------------------------------------------------------------------
\* database.py
\* ------------------------------------------------------------------------

\* variant: the two JSON columns bound in the other order
ReleaseRowSwapped(version, release_data, analysis) ==
    [version |-> version,
     release_data |-> Dumps(analysis),
     analysis |-> Dumps(release_data)]

\* The releases table is a set of rows [version, release_data, analysis];
\* release_data and analysis are TEXT columns holding json.dumps output.
ReleaseRow(version, release_data, analysis) ==
    [version |-> version,
     release_data |-> Dumps(release_data),
     analysis |-> Dumps(analysis)]

\* variant: a plain INSERT into a table without the primary key
StoreReleaseInsert(rows, version, release_data, analysis) ==
    rows \cup {ReleaseRow(version, release_data, analysis)}

\* variant: the row is written but never committed
StoreReleaseUncommitted(rows, version, release_data, analysis) == rows

\* Database.store_release: INSERT OR REPLACE on the primary key version
StoreRelease(rows, version, release_data, analysis) ==
    {r \in rows : r.version # version}
        \cup {ReleaseRow(version, release_data, analysis)}

NotFound == [found |-> FALSE, version |-> "", release_data |-> JNull, analysis |-> JNull]

\* Database.get_release: None, or the row with both TEXT columns json.loads-ed
GetRelease(rows, version) ==
    LET hits == {r \in rows : r.version = version} IN
    IF hits = {} THEN NotFound
    ELSE LET row == CHOOSE r \in hits : TRUE IN
         [found |-> TRUE,
          version |-> row.version,
          release_data |-> Loads(row.release_data).v,
          analysis |-> Loads(row.analysis).v]

\* variant: a UNIQUE (version, channel) constraint with INSERT OR IGNORE
RecordNotificationUnique(log, version, channel) ==
    IF \E k \in 1..Len(log) : log[k].version = version /\ log[k].channel = channel
    THEN log
    ELSE Append(log, [id |-> Len(log) + 1, version |-> version, channel |-> channel])

\* variant: INSERT OR REPLACE on a (version, channel) key rewrites the row
RecordNotificationReplaces(log, version, channel) ==
    LET row == [id |-> Len(log) + 1, version |-> version, channel |-> channel]
        same == {k \in 1..Len(log) :
                    log[k].version = version /\ log[k].channel = channel}
    IN  IF same = {} THEN Append(log, row)
        ELSE [k \in 1..Len(log) |-> IF k \in same THEN row ELSE log[k]]

\* variant: the row is not inserted
RecordNotificationDropped(log, version, channel) == log

\* Database.record_notification: INSERT of one row, id is AUTOINCREMENT
RecordNotification(log, version, channel) ==
    Append(log, [id |-> Len(log) + 1, version |-> version, channel |-> channel])

\* The two TIMESTAMP columns of table releases.  Where the order of rows or
\* their age matters a row carries them, as whole seconds of the clock.

\* variant: an upsert that updates the row in place and keeps its created_at
StoreReleaseAtKeepsCreated(rows, version, release_data, analysis, now) ==
    LET row == ReleaseRow(version, release_data, analysis)
        old == {r \in rows : r.version = version}
    IN  {r \in rows : r.version # version}
            \cup {[version |-> row.version,
                   release_data |-> row.release_data,
                   analysis |-> row.analysis,
                   created_at |-> IF old = {} THEN now
                                  ELSE (CHOOSE r \in old : TRUE).created_at,
                   updated_at |-> now]}

\* Database.store_release at clock value now.  INSERT OR REPLACE deletes the
\* row that holds the primary key and inserts a new one: created_at is not in
\* the column list and takes its DEFAULT CURRENT_TIMESTAMP, updated_at is
\* bound to datetime.now().
StoreReleaseAt(rows, version, release_data, analysis, now) ==
    LET row == ReleaseRow(version, release_data, analysis)
    IN  {r \in rows : r.version # version}
            \cup {[version |-> row.version,
                   release_data |-> row.release_data,
                   analysis |-> row.analysis,
                   created_at |-> now,
                   updated_at |-> now]}

\* ORDER BY created_at DESC: the orders the query may return the rows in.
\* Rows of one second compare equal and SQL leaves their order open.
ByCreatedDesc(rows) ==
    LET n == Cardinality(rows) IN
    {order \in [1..n -> rows] :
        /\ \A i, j \in 1..n : i # j => order[i] # order[j]
        /\ \A i, j \in 1..n : i < j => order[i].created_at >= order[j].created_at}

\* Database.get_latest_release: None, or the first row of the order; the set
\* of results the query may give
GetLatestRelease(rows) ==
    IF rows = {} THEN {NotFound.version}
    ELSE {order[1].version : order \in ByCreatedDesc(rows)}

\* Database.get_all_releases: the versions in the order of the query, LIMIT ?
GetAllReleases(rows, limit) ==
    {Take([i \in 1..Len(order) |-> order[i].version], limit) :
        order \in ByCreatedDesc(rows)}

\* the texts '%query%' matches in a string: the string, and for a version
\* its release line.  LIKE takes ASCII letters of either case as equal.
Lower(text) ==
    CASE text = "Critical" -> "critical"
      [] text = "V2.13" -> "v2.13"
      [] OTHER -> text

PartsOf(text) ==
    IF text \in {"v2.13.0", "v2.13.1", "v2.13.2", "v2.13.3"}
    THEN {text, "v2.13"}
    ELSE {text}

\* version LIKE ?
Like(text, query) == Lower(query) \in {Lower(part) : part \in PartsOf(text)}

\* analysis LIKE ? on the TEXT column: some key or string of it matches
LikeText(toks, query) ==
    \E i \in 1..Len(toks) : toks[i].k = "str" /\ Like(toks[i].s, query)

\* one result of search_releases from one matching row
SearchResult(row) ==
    LET analysis == Loads(row.analysis).v IN
    [version |-> row.version,
     summary |-> DictGet(analysis, "summary", JStr("No summary")),
     severity |-> DictGet(analysis, "severity", JStr("normal")),
     created_at |-> row.created_at]

\* Database.search_releases: the results the query may give, LIMIT 50;
\* analysis.get raises when a matching row's analysis is not a dict
SearchReleases(rows, query) ==
    LET hits == {r \in rows : Like(r.version, query) \/ LikeText(r.analysis, query)}
    IN  IF \E r \in hits : ~IsDict(Loads(r.analysis).v)
        THEN {[raised |-> TRUE, rows |-> <<>>]}
        ELSE {[raised |-> FALSE,
               rows |-> Take([i \in 1..Len(order) |-> SearchResult(order[i])], 50)] :
                 order \in ByCreatedDesc(hits)}

\* ------------------------------------------------------------------------
\* Python's behaviour on the fields of an analysis the renderers touch
\* ------------------------------------------------------------------------

\* v[:n] is defined for a list and for a str
Sliceable(v) == v.t \in {"list", "str"}

\* the items of v[:n]; the characters of a non-empty str are strs
FirstItems(v, n) ==
    IF IsList(v) THEN Take(v.l, n)
    ELSE IF IsStr(v) /\ v.s # "" THEN <<JStr("c")>>
    ELSE <<>>

\* for x in v[:n]: x[key] ... x.get(...) raises (key "" when only x.get is used)
ItemsError(v, n, key) ==
    \/ ~Sliceable(v)
    \/ \E i \in 1..Len(FirstItems(v, n)) :
          \/ ~IsDict(FirstItems(v, n)[i])
          \/ key # "" /\ ~HasKey(FirstItems(v, n)[i], key)

\* if v: for x in v[:n]: x[key]
GuardedItemsError(v, n, key) == Truthy(v) /\ ItemsError(v, n, key)

\* if v: for x in v[:n]: an f-string of x, which any item supports
GuardedSliceError(v) == Truthy(v) /\ ~Sliceable(v)

\* ------------------------------------------------------------------------
\* ai_analyzer.py: compare_versions
\* ------------------------------------------------------------------------

\* ', '.join(names)
RECURSIVE Join(_)
Join(names) ==
    IF names = <<>> THEN ""
    ELSE IF Len(names) = 1 THEN names[1]
    ELSE names[1] \o ", " \o Join(Tail(names))

\* variant: the report stops at the first missing version
MissingFirstOnly(rows, version1, version2) ==
    IF ~GetRelease(rows, version1).found THEN <<version1>>
    ELSE IF ~GetRelease(rows, version2).found THEN <<version2>>
    ELSE <<>>

\* compare_versions: the list 'missing', version1 first
Missing(rows, version1, version2) ==
    (IF GetRelease(rows, version1).found THEN <<>> ELSE <<version1>>)
        \o (IF GetRelease(rows, version2).found THEN <<>> ELSE <<version2>>)

\* the result returned when a version is not in the database
NotFoundResult(missing) ==
    JObj(<< JPair("error", JStr("Version(s) not found: " \o Join(missing))),
            JPair("summary", JStr("Cannot compare - versions not in database")) >>)

\* the f-string of the prompt reads analysis.get('summary', 'N/A')[:200] and
\* len(analysis.get('new_features', [])).  The message of the exception, ""
\* when none.
PromptFieldsError(analysis) ==
    IF ~IsDict(analysis) THEN "object has no attribute 'get'"
    ELSE IF ~Sliceable(DictGet(analysis, "summary", JStr("N/A")))
    THEN "summary is not subscriptable"
    ELSE IF ~HasLen(DictGet(analysis, "new_features", EmptyList))
    THEN "new_features has no len()"
    ELSE ""

\* the result of the except clause of compare_versions
ComparisonFailed(message) ==
    JObj(<< JPair("error", JStr(message)),
            JPair("summary", JStr("Failed to generate comparison")) >>)

\* the try of compare_versions: the completion call and the parse
CompareTry(completion) ==
    IF completion.raises THEN ComparisonFailed(completion.msg)
    ELSE ParseJsonResponse(completion.text)

\* AIAnalyzer.compare_versions: the outcome, and whether the completion
\* service was called.  The prompt is built from the two stored analyses
\* before the try.
CompareVersions(rows, version1, version2, completion) ==
    LET missing == Missing(rows, version1, version2)
        error1 == PromptFieldsError(GetRelease(rows, version1).analysis)
        error2 == PromptFieldsError(GetRelease(rows, version2).analysis)
    IN  IF missing # <<>>
        THEN [out |-> Return(NotFoundResult(missing)), called |-> FALSE]
        ELSE IF error1 # "" THEN [out |-> Raise(error1), called |-> FALSE]
        ELSE IF error2 # "" THEN [out |-> Raise(error2), called |-> FALSE]
        ELSE [out |-> Return(CompareTry(completion)), called |-> TRUE]

\* ------------------------------------------------------------------------
\* slack_bot.py
\* ------------------------------------------------------------------------

CriticalChannel == "critical"

ReleasesChannel == "releases"

TeamChannel == "team"

\* variant: three tiers, important releases on the critical channel too
RouteThreeTier(analysis) ==
    LET severity == DictGet(analysis, "severity", JStr("normal")) IN
    IF severity = JStr("critical")
    THEN [channel |-> CriticalChannel, prefix |-> "CRITICAL"]
    ELSE IF severity = JStr("important")
    THEN [channel |-> CriticalChannel, prefix |-> "IMPORTANT"]
    ELSE [channel |-> ReleasesChannel, prefix |-> "NEW RELEASE"]

\* notify_new_release, the if/elif/else on severity: [channel, prefix]
Route(analysis) ==
    LET severity == DictGet(analysis, "severity", JStr("normal")) IN
    IF severity = JStr("critical")
    THEN [channel |-> CriticalChannel, prefix |-> "CRITICAL"]
    ELSE IF severity = JStr("important")
    THEN [channel |-> ReleasesChannel, prefix |-> "IMPORTANT"]
    ELSE [channel |-> ReleasesChannel, prefix |-> "NEW RELEASE"]

\* the bug fixes shown: those whose severity is critical or high
CriticalBugs(bugs) ==
    SelectSeq(bugs.l, LAMBDA b :
        DictGet(b, "severity", JNull) \in {JStr("critical"), JStr("high")})

BugFixesError(bugs) ==
    IF IsList(bugs)
    THEN \/ \E i \in 1..Len(bugs.l) : ~IsDict(bugs.l[i])
         \/ /\ \A i \in 1..Len(bugs.l) : IsDict(bugs.l[i])
            /\ ItemsError(JList(CriticalBugs(bugs)), 3, "issue")
    ELSE ~(bugs.t \in {"str", "obj"} /\ ~Truthy(bugs))

SecurityError(security) ==
    \/ GuardedItemsError(security, 3, "")
    \/ /\ Truthy(security) /\ ~ItemsError(security, 3, "")
       /\ \E i \in 1..Len(FirstItems(security, 3)) :
             ~IsStr(DictGet(FirstItems(security, 3)[i], "severity", JStr("unknown")))

ResourcesShown(analysis) ==
    LET resources == DictGet(analysis, "resources", EmptyDict) IN
    Truthy(resources) /\ IsDict(resources)
        /\ ~Truthy(DictGet(resources, "error", JNull))

ResourcesError(analysis) ==
    LET resources == DictGet(analysis, "resources", EmptyDict)
        docs == DictGet(resources, "documentation", EmptyList)
        videos == DictGet(resources, "videos", EmptyList)
    IN  \/ Truthy(resources) /\ ~IsDict(resources)
        \/ /\ ResourcesShown(analysis)
           /\ \/ ItemsError(docs, 2, "url") \/ ItemsError(docs, 2, "title")
              \/ ItemsError(videos, 2, "url") \/ ItemsError(videos, 2, "title")

\* SlackBot._format_release_blocks raises on this analysis
FormatBlocksError(analysis) ==
    \/ ~IsStr(DictGet(analysis, "severity", JStr("normal")))
    \/ GuardedItemsError(DictGet(analysis, "new_features", EmptyList), 3, "title")
    \/ BugFixesError(DictGet(analysis, "bug_fixes", EmptyList))
    \/ GuardedItemsError(DictGet(analysis, "breaking_changes", EmptyList), 2, "change")
    \/ SecurityError(DictGet(analysis, "security_updates", EmptyList))
    \/ GuardedSliceError(DictGet(analysis, "recommended_actions", EmptyList))
    \/ ResourcesError(analysis)

Section(name, shown) == IF shown THEN <<name>> ELSE <<>>

\* SlackBot._format_release_blocks: the display blocks, by kind, in order
FormatReleaseBlocks(analysis) ==
    LET bugs == DictGet(analysis, "bug_fixes", EmptyList)
        resources == DictGet(analysis, "resources", EmptyDict)
    IN  <<"header", "fields", "summary", "divider">>
        \o Section("new_features", Truthy(DictGet(analysis, "new_features", EmptyList)))
        \o Section("bug_fixes", IsList(bugs) /\ CriticalBugs(bugs) # <<>>)
        \o Section("breaking_changes",
                   Truthy(DictGet(analysis, "breaking_changes", EmptyList)))
        \o Section("security_updates",
                   Truthy(DictGet(analysis, "security_updates", EmptyList)))
        \o Section("recommended_actions",
                   Truthy(DictGet(analysis, "recommended_actions", EmptyList)))
        \o Section("resources",
                   ResourcesShown(analysis)
                   /\ (FirstItems(DictGet(resources, "documentation", EmptyList), 2) # <<>>
                       \/ FirstItems(DictGet(resources, "videos", EmptyList), 2) # <<>>))

\* ------------------------------------------------------------------------
\* integrations.py
\* ------------------------------------------------------------------------

\* variant: the table has no entry for low, which takes the default
JiraPriorityNoLow(severity) ==
    CASE severity = JStr("critical") -> "Highest"
      [] severity = JStr("important") -> "High"
      [] OTHER -> "Medium"

\* IntegrationManager._get_jira_priority
JiraPriority(severity) ==
    CASE severity = JStr("critical") -> "Highest"
      [] severity = JStr("important") -> "High"
      [] severity = JStr("normal") -> "Medium"
      [] severity = JStr("low") -> "Low"
      [] OTHER -> "Medium"

\* IntegrationManager._get_snow_urgency
SnowUrgency(severity) ==
    CASE severity = JStr("critical") -> "1"
      [] severity = JStr("important") -> "2"
      [] severity = JStr("normal") -> "3"
      [] severity = JStr("low") -> "3"
      [] OTHER -> "3"

\* IntegrationManager._get_snow_impact
SnowImpact(severity) ==
    CASE severity = JStr("critical") -> "1"
      [] severity = JStr("important") -> "2"
      [] severity = JStr("normal") -> "3"
      [] severity = JStr("low") -> "3"
      [] OTHER -> "3"

UpgradeNotesError(notes) ==
    /\ Truthy(notes)
    /\ \/ ~IsDict(notes)
       \/ GuardedSliceError(DictGet(notes, "known_issues", EmptyList))

\* IntegrationManager._build_ticket_description raises on this analysis
TicketDescriptionError(analysis) ==
    \/ ~IsStr(DictGet(analysis, "severity", JStr("Normal")))
    \/ ~IsStr(DictGet(analysis, "release_type", JStr("Unknown")))
    \/ ItemsError(DictGet(analysis, "new_features", EmptyList), 5, "title")
    \/ GuardedItemsError(DictGet(analysis, "breaking_changes", EmptyList), 3, "change")
    \/ GuardedItemsError(DictGet(analysis, "security_updates", EmptyList), 3, "")
    \/ GuardedSliceError(DictGet(analysis, "recommended_actions", EmptyList))
    \/ UpgradeNotesError(DictGet(analysis, "upgrade_notes", EmptyDict))

\* ------------------------------------------------------------------------
\* Bounds, the upstream feed and the completion service
\* ------------------------------------------------------------------------

\* number of releases in the upstream feed when runs do not overlap
NumVersions == 2

\* number of releases in the upstream feed when two tasks run concurrently
RaceVersions == 1

\* number of handlers (pipeline runs, forced reanalyses) that run concurrently
MaxTasks == 2

TaskNames == <<"a", "b", "c", "d">>

\* number of failures of the collaborators (release feed, database, chat
\* platform) in one behaviour
MaxFaults == 1

VersionNames == <<"v2.13.0", "v2.13.1", "v2.13.2", "v2.13.3">>

\* one release of the feed: {tag_name, body, build_yaml, changelog}
UpstreamRelease(i) ==
    JObj(<< JPair("tag_name", JStr(VersionNames[i])),
            JPair("body", JStr("notes")),
            JPair("build_yaml", JStr("")),
            JPair("changelog", JNull) >>)

TagName(release) == DictGet(release, "tag_name", JNull).s

\* an upstream release list of n releases, in upstream-reported order
Feed(n) == [i \in 1..n |-> UpstreamRelease(i)]

\* the versions a forced reanalysis may name: upstream's, and one it lacks
Requestable(feed) == {TagName(feed[i]) : i \in 1..Len(feed)} \cup {"v0.0.0"}

\* RancherMonitor.check_for_new_releases: the upstream releases whose
\* version is absent from the store, in upstream order
CheckForNewReleases(feed, rows) ==
    SelectSeq(feed, LAMBDA release : ~GetRelease(rows, TagName(release)).found)

\* RancherMonitor.fetch_release: the upstream release, or None
FetchRelease(feed, version) ==
    LET hits == {i \in 1..Len(feed) : TagName(feed[i]) = version} IN
    IF hits = {} THEN [found |-> FALSE, release |-> JNull]
    ELSE [found |-> TRUE, release |-> feed[CHOOSE i \in hits : TRUE]]

Feature(title) == JObj(<<JPair("title", JStr(title))>>)

\* a response that follows the analysis schema
GoodAnalysis(severity, features) ==
    JObj(<< JPair("release_type", JStr("minor")),
            JPair("severity", JStr(severity)),
            JPair("summary", JStr("overview")),
            JPair("new_features", JList(features)) >>)

\* a critical response whose release_type is null
NullTypeAnalysis ==
    JObj(<< JPair("release_type", JNull),
            JPair("severity", JStr("critical")),
            JPair("summary", JStr("overview")) >>)

ServiceDown == ServiceRaises("503 service unavailable")

NonJsonText == <<Prose("I cannot analyze this release.")>>

\* what the completion service may do on the analysis call of a pipeline run
\* or of a forced reanalysis
Completions ==
    { ServiceDown,
      ServiceReturns(NonJsonText),
      ServiceReturns(Dumps(GoodAnalysis("normal", <<Feature("f1")>>))),
      ServiceReturns(Dumps(GoodAnalysis("critical", <<>>))),
      ServiceReturns(Dumps(GoodAnalysis("important", <<EmptyDict>>))),
      ServiceReturns(Dumps(NullTypeAnalysis)) }

\* what it may do on the resource lookup that follows
Lookups == { ServiceDown }

\* ------------------------------------------------------------------------
\* State
\* ------------------------------------------------------------------------

VARIABLES
    upstream,       \* the upstream release list
    releases,       \* store: the rows of table releases
    notifications,  \* store: the rows of table notifications, in insertion order
    slack,          \* chat platform: the messages posted, in order
    tickets,        \* tracking systems: the create requests sent and how each ended
    enabled,        \* config['integrations']: the tracking systems enabled
    pc,             \* per task: the await it is suspended at
    request,        \* per task: the version argument of force_analyze
    new_releases,   \* per task: the batch of the run (the release fetched)
    idx,            \* per task: position of the for loop in new_releases
    response,       \* per task: what the completion call of the release in hand did
    analysis,       \* per task: the analysis of the release in hand
    error,          \* per task: the exception caught by monitor_and_process
    reply,          \* per task: the HTTP status force_analyze returned
    log,            \* per task: the steps completed since it started, in order
    started,        \* the tasks the host has started a handler in
    faults,         \* number of collaborator failures so far
    call            \* one call of a helper or of the store on its own: inputs, clock, result

vars == << upstream, releases, notifications, slack, tickets, enabled, pc, request,
           new_releases, idx, response, analysis, error, reply, log, started,
           faults, call >>

\* the tasks the host runs on the one event loop: DOMAIN pc.  One task when
\* runs do not overlap, two when a second trigger arrives during a run.
Tasks == DOMAIN pc

Systems == {"jira", "servicenow"}

NoResponse == ServiceReturns(<<>>)

NoCall == [release |-> JNull, completion |-> NoResponse, lookup |-> NoResponse,
           done |-> FALSE, result |-> Return(JNull)]

\* the state after startup: an empty store, every task idle
Startup(feed, tasks, configs) ==
    /\ upstream = feed
    /\ releases = {}
    /\ notifications = <<>>
    /\ slack = <<>>
    /\ tickets = <<>>
    /\ enabled \in configs
    /\ pc = [p \in tasks |-> "idle"]
    /\ request = [p \in tasks |-> ""]
    /\ new_releases = [p \in tasks |-> <<>>]
    /\ idx = [p \in tasks |-> 0]
    /\ response = [p \in tasks |-> NoResponse]
    /\ analysis = [p \in tasks |-> JNull]
    /\ error = [p \in tasks |-> ""]
    /\ reply = [p \in tasks |-> 0]
    /\ log = [p \in tasks |-> <<>>]
    /\ started = {}
    /\ faults = 0

\* one handler at a time
Init == Startup(Feed(NumVersions), {"a"}, SUBSET Systems) /\ call = NoCall

\* MaxTasks handlers interleaved at their awaits
RaceInit ==
    /\ Startup(Feed(RaceVersions), {TaskNames[i] : i \in 1..MaxTasks}, SUBSET Systems)
    /\ call = NoCall

\* the release the task has in hand, and its version
\* variant: the batch taken from its last release to its first
CurrentReversed(p) == new_releases[p][Len(new_releases[p]) + 1 - idx[p]]

Current(p) == new_releases[p][idx[p]]

Version(p) == TagName(Current(p))

Event(step, version) == [step |-> step, version |-> version]

Logged(p, step) == log' = [log EXCEPT ![p] = Append(@, Event(step, Version(p)))]

\* ------------------------------------------------------------------------
\* main.py: monitor_and_process
\* ------------------------------------------------------------------------

\* where the for loop goes after the last statement of its body
Advance(p) ==
    IF idx[p] < Len(new_releases[p])
    THEN [pc |-> "analyze", idx |-> idx[p] + 1]
    ELSE [pc |-> "idle", idx |-> idx[p]]

\* IntegrationManager.create_ticket after the Jira branch
AfterJira(p) ==
    IF "servicenow" \in enabled
    THEN [pc |-> "servicenow", idx |-> idx[p]]
    ELSE Advance(p)

\* variant: tickets for every severity that is not "normal"
AfterNotifyNotNormal(p) ==
    IF DictGet(analysis[p], "severity", JNull) # JStr("normal")
    THEN IF "jira" \in enabled THEN [pc |-> "jira", idx |-> idx[p]] ELSE AfterJira(p)
    ELSE Advance(p)

\* the statements after notify_new_release returned: tickets if critical
AfterNotify(p) ==
    IF DictGet(analysis[p], "severity", JNull) = JStr("critical")
    THEN IF "jira" \in enabled THEN [pc |-> "jira", idx |-> idx[p]] ELSE AfterJira(p)
    ELSE Advance(p)

\* a collaborator fails: its call raises
Fault == faults < MaxFaults /\ faults' = faults + 1

Goto(p, to) ==
    /\ pc' = [pc EXCEPT ![p] = to.pc]
    /\ idx' = [idx EXCEPT ![p] = to.idx]

\* variant: the except clause only records the error, no alert is sent
CaughtSilently(p, e) ==
    /\ pc' = [pc EXCEPT ![p] = "idle"]
    /\ error' = [error EXCEPT ![p] = e]

\* the except clause of monitor_and_process catches e
Caught(p, e) ==
    /\ pc' = [pc EXCEPT ![p] = "alert"]
    /\ error' = [error EXCEPT ![p] = e]

\* the host starts monitor_and_process (timer, startup or webhook)
StartRun(p) ==
    /\ pc[p] = "idle"
    /\ p \notin started
    /\ started' = started \cup {p}
    /\ pc' = [pc EXCEPT ![p] = "check"]
    /\ request' = [request EXCEPT ![p] = ""]
    /\ new_releases' = [new_releases EXCEPT ![p] = <<>>]
    /\ idx' = [idx EXCEPT ![p] = 0]
    /\ response' = [response EXCEPT ![p] = NoResponse]
    /\ analysis' = [analysis EXCEPT ![p] = JNull]
    /\ error' = [error EXCEPT ![p] = ""]
    /\ reply' = [reply EXCEPT ![p] = 0]
    /\ log' = [log EXCEPT ![p] = <<>>]
    /\ UNCHANGED <<call, upstream, releases, notifications, slack, tickets,
                   enabled, faults>>

\* variant: the run marks every detected version in the store at detection
CheckReleasesMarksSeen(p) ==
    /\ pc[p] = "check"
    /\ LET found == CheckForNewReleases(upstream, releases) IN
       /\ new_releases' = [new_releases EXCEPT ![p] = found]
       /\ releases' = releases \cup
             {ReleaseRow(TagName(found[i]), found[i], EmptyDict) : i \in 1..Len(found)}
       /\ IF found = <<>>
          THEN Goto(p, [pc |-> "idle", idx |-> 0])
          ELSE Goto(p, [pc |-> "analyze", idx |-> 1])
    /\ UNCHANGED <<call, upstream, notifications, slack, tickets,
                   enabled, request, response, analysis, error, reply, log,
                   started, faults>>

\* variant: the batch is the whole upstream list, stored versions included
CheckReleasesAll(p) ==
    /\ pc[p] = "check"
    /\ new_releases' = [new_releases EXCEPT ![p] = upstream]
    /\ IF upstream = <<>>
       THEN Goto(p, [pc |-> "idle", idx |-> 0])
       ELSE Goto(p, [pc |-> "analyze", idx |-> 1])
    /\ UNCHANGED <<call, upstream, releases, notifications, slack, tickets,
                   enabled, request, response, analysis, error, reply, log,
                   started, faults>>

\* variant: the batch is every upstream version without a notification record
CheckReleasesUnnotified(p) ==
    /\ pc[p] = "check"
    /\ LET found == SelectSeq(upstream, LAMBDA release :
                        \A k \in 1..Len(notifications) :
                            notifications[k].version # TagName(release))
       IN
       /\ new_releases' = [new_releases EXCEPT ![p] = found]
       /\ IF found = <<>>
          THEN Goto(p, [pc |-> "idle", idx |-> 0])
          ELSE Goto(p, [pc |-> "analyze", idx |-> 1])
    /\ UNCHANGED <<call, upstream, releases, notifications, slack, tickets,
                   enabled, request, response, analysis, error, reply, log,
                   started, faults>>

\* new_releases = await monitor.check_for_new_releases(); return if empty
CheckReleases(p) ==
    /\ pc[p] = "check"
    /\ LET found == CheckForNewReleases(upstream, releases) IN
       /\ new_releases' = [new_releases EXCEPT ![p] = found]
       /\ IF found = <<>>
          THEN Goto(p, [pc |-> "idle", idx |-> 0])
          ELSE Goto(p, [pc |-> "analyze", idx |-> 1])
    /\ UNCHANGED <<call, upstream, releases, notifications, slack, tickets,
                   enabled, request, response, analysis, error, reply, log,
                   started, faults>>

\* the release feed cannot be fetched: check_for_new_releases raises
CheckFails(p) ==
    /\ pc[p] = "check"
    /\ Fault
    /\ Caught(p, "upstream fetch failed")
    /\ UNCHANGED <<call, upstream, releases, notifications, slack, tickets,
                   enabled, request, new_releases, idx, response, analysis,
                   reply, log, started>>

\* variant: the run goes from the analysis to the notification, store skipped
AnalyzedSkipsStore(p, result) ==
    IF result.raised
    THEN /\ Caught(p, result.msg)
         /\ UNCHANGED <<analysis, log>>
    ELSE /\ analysis' = [analysis EXCEPT ![p] = result.v]
         /\ pc' = [pc EXCEPT ![p] = "notify"]
         /\ Logged(p, "analyzed")
         /\ UNCHANGED error

\* analyze_release returned or raised: result
Analyzed(p, result) ==
    IF result.raised
    THEN /\ Caught(p, result.msg)
         /\ UNCHANGED <<analysis, log>>
    ELSE /\ analysis' = [analysis EXCEPT ![p] = result.v]
         /\ pc' = [pc EXCEPT ![p] = "store"]
         /\ Logged(p, "analyzed")
         /\ UNCHANGED error

\* analysis = await ai_analyzer.analyze_release(release)
Analyze(p) ==
    /\ pc[p] = "analyze"
    /\ \E completion \in Completions, lookup \in Lookups :
          /\ response' = [response EXCEPT ![p] = completion]
          /\ Analyzed(p, AnalyzeRelease(Current(p), completion, lookup))
    /\ UNCHANGED <<call, upstream, releases, notifications, slack, tickets,
                   enabled, request, new_releases, idx, reply, started,
                   faults>>

\* variant: store_release is called without await; the run goes on to the
\* notification and the row is never written
StoreUnawaited(p) ==
    /\ pc[p] = "store"
    /\ pc' = [pc EXCEPT ![p] = "notify"]
    /\ Logged(p, "stored")
    /\ UNCHANGED <<call, upstream, releases, notifications, slack, tickets,
                   enabled, request, new_releases, idx, response, analysis,
                   error, reply, started, faults>>

\* await db.store_release(version, release, analysis)
Store(p) ==
    /\ pc[p] = "store"
    /\ releases' = StoreRelease(releases, Version(p), Current(p), analysis[p])
    /\ pc' = [pc EXCEPT ![p] = "notify"]
    /\ Logged(p, "stored")
    /\ UNCHANGED <<call, upstream, notifications, slack, tickets, enabled,
                   request, new_releases, idx, response, analysis, error,
                   reply, started, faults>>

\* variant: the database error is swallowed and the run goes on to notify
StoreFailsSwallowed(p) ==
    /\ pc[p] = "store"
    /\ Fault
    /\ pc' = [pc EXCEPT ![p] = "notify"]
    /\ UNCHANGED <<call, upstream, releases, notifications, slack, tickets,
                   enabled, request, new_releases, idx, response, analysis,
                   error, reply, log, started>>

\* the store write raises (database error)
StoreFails(p) ==
    /\ pc[p] = "store"
    /\ Fault
    /\ Caught(p, "database error")
    /\ UNCHANGED <<call, upstream, releases, notifications, slack, tickets,
                   enabled, request, new_releases, idx, response, analysis,
                   reply, log, started>>

\* notify_new_release: _format_release_blocks raises before the try
NotifyRenderFails(p) ==
    /\ pc[p] = "notify"
    /\ FormatBlocksError(analysis[p])
    /\ Caught(p, "render failed")
    /\ UNCHANGED <<call, upstream, releases, notifications, slack, tickets,
                   enabled, request, new_releases, idx, response, analysis,
                   reply, log, started, faults>>

\* variant: the channel is picked from the analysis the store holds for the
\* version when the message is posted
NotifyPostStoredSeverity(p) ==
    /\ pc[p] = "notify"
    /\ ~FormatBlocksError(analysis[p])
    /\ slack' = Append(slack,
                       [channel |-> Route(GetRelease(releases, Version(p)).analysis).channel,
                        version |-> Version(p),
                        text |-> Route(GetRelease(releases, Version(p)).analysis).prefix,
                        blocks |-> FormatReleaseBlocks(analysis[p])])
    /\ pc' = [pc EXCEPT ![p] = "record"]
    /\ Logged(p, "posted")
    /\ UNCHANGED <<call, upstream, releases, notifications, tickets, enabled,
                   request, new_releases, idx, response, analysis, error,
                   reply, started, faults>>

\* notify_new_release: the message is rendered and chat_postMessage succeeds
NotifyPost(p) ==
    /\ pc[p] = "notify"
    /\ ~FormatBlocksError(analysis[p])
    /\ slack' = Append(slack, [channel |-> Route(analysis[p]).channel,
                               version |-> Version(p),
                               text |-> Route(analysis[p]).prefix,
                               blocks |-> FormatReleaseBlocks(analysis[p])])
    /\ pc' = [pc EXCEPT ![p] = "record"]
    /\ Logged(p, "posted")
    /\ UNCHANGED <<call, upstream, releases, notifications, tickets, enabled,
                   request, new_releases, idx, response, analysis, error,
                   reply, started, faults>>

\* variant: the post has its own try, the record is attempted after a failure
NotifyPostFailsThenRecords(p) ==
    /\ pc[p] = "notify"
    /\ Fault
    /\ ~FormatBlocksError(analysis[p])
    /\ pc' = [pc EXCEPT ![p] = "record"]
    /\ Logged(p, "post_failed")
    /\ UNCHANGED <<call, upstream, releases, notifications, slack, tickets,
                   enabled, request, new_releases, idx, response, analysis,
                   error, reply, started>>

\* notify_new_release: chat_postMessage raises, the except logs it
NotifyPostFails(p) ==
    /\ pc[p] = "notify"
    /\ Fault
    /\ ~FormatBlocksError(analysis[p])
    /\ Goto(p, AfterNotify(p))
    /\ Logged(p, "post_failed")
    /\ UNCHANGED <<call, upstream, releases, notifications, slack, tickets,
                   enabled, request, new_releases, response, analysis, error,
                   reply, started>>

\* notify_new_release: await db.record_notification(version, channel)
Record(p) ==
    /\ pc[p] = "record"
    /\ notifications' =
          RecordNotification(notifications, Version(p), Route(analysis[p]).channel)
    /\ Goto(p, AfterNotify(p))
    /\ Logged(p, "recorded")
    /\ UNCHANGED <<call, upstream, releases, slack, tickets, enabled,
                   request, new_releases, response, analysis, error, reply,
                   started, faults>>

\* notify_new_release: record_notification raises, the except logs it
RecordFails(p) ==
    /\ pc[p] = "record"
    /\ Fault
    /\ Goto(p, AfterNotify(p))
    /\ Logged(p, "record_failed")
    /\ UNCHANGED <<call, upstream, releases, notifications, slack, tickets,
                   enabled, request, new_releases, response, analysis, error,
                   reply, started>>

HttpOutcomes == {"created", "rejected", "exception"}

\* _create_jira_ticket: the payload is built and the create request is sent;
\* whatever the outcome (201, another status, an exception) the method returns
\* and create_ticket drops what it returns
JiraTicket(p) ==
    /\ pc[p] = "jira"
    /\ ~TicketDescriptionError(analysis[p])
    /\ \E outcome \in HttpOutcomes :
          tickets' = Append(tickets,
             [system |-> "jira",
              version |-> Version(p),
              label |-> DictGet(analysis[p], "severity", JStr("normal")).s,
              priority |-> JiraPriority(DictGet(analysis[p], "severity", JStr("normal"))),
              urgency |-> "",
              impact |-> "",
              outcome |-> outcome])
    /\ Goto(p, AfterJira(p))
    /\ Logged(p, "jira")
    /\ UNCHANGED <<call, upstream, releases, notifications, slack, enabled,
                   request, new_releases, response, analysis, error, reply,
                   started, faults>>

\* _create_jira_ticket: _build_ticket_description raises before the try
JiraBodyFails(p) ==
    /\ pc[p] = "jira"
    /\ TicketDescriptionError(analysis[p])
    /\ Caught(p, "ticket description failed")
    /\ UNCHANGED <<call, upstream, releases, notifications, slack, tickets,
                   enabled, request, new_releases, idx, response, analysis,
                   reply, log, started, faults>>

\* _create_servicenow_ticket: the payload is built and the request is sent;
\* whatever the outcome the method returns and its result is dropped
ServiceNowTicket(p) ==
    /\ pc[p] = "servicenow"
    /\ ~TicketDescriptionError(analysis[p])
    /\ \E outcome \in HttpOutcomes :
          tickets' = Append(tickets,
             [system |-> "servicenow",
              version |-> Version(p),
              label |-> "",
              priority |-> "",
              urgency |-> SnowUrgency(DictGet(analysis[p], "severity", JStr("normal"))),
              impact |-> SnowImpact(DictGet(analysis[p], "severity", JStr("normal"))),
              outcome |-> outcome])
    /\ Goto(p, Advance(p))
    /\ Logged(p, "servicenow")
    /\ UNCHANGED <<call, upstream, releases, notifications, slack, enabled,
                   request, new_releases, response, analysis, error, reply,
                   started, faults>>

\* _create_servicenow_ticket: _build_ticket_description raises in the payload
ServiceNowBodyFails(p) ==
    /\ pc[p] = "servicenow"
    /\ TicketDescriptionError(analysis[p])
    /\ Caught(p, "ticket description failed")
    /\ UNCHANGED <<call, upstream, releases, notifications, slack, tickets,
                   enabled, request, new_releases, idx, response, analysis,
                   reply, log, started, faults>>

\* the except clause: await slack_bot.notify_error(str(e)), the post succeeds
Alert(p) ==
    /\ pc[p] = "alert"
    /\ slack' = Append(slack, [channel |-> TeamChannel, version |-> "",
                               text |-> error[p], blocks |-> <<>>])
    /\ pc' = [pc EXCEPT ![p] = "idle"]
    /\ UNCHANGED <<call, upstream, releases, notifications, tickets, enabled,
                   request, new_releases, idx, response, analysis, error,
                   reply, log, started, faults>>

\* variant: notify_error has no try, the failed post leaves the handler
AlertFailsPropagates(p) ==
    /\ pc[p] = "alert"
    /\ Fault
    /\ pc' = [pc EXCEPT ![p] = "raised"]
    /\ error' = [error EXCEPT ![p] = "alert failed"]
    /\ UNCHANGED <<call, upstream, releases, notifications, slack, tickets,
                   enabled, request, new_releases, idx, response, analysis,
                   reply, log, started>>

\* notify_error: the post raises, the except logs it
AlertFails(p) ==
    /\ pc[p] = "alert"
    /\ Fault
    /\ pc' = [pc EXCEPT ![p] = "idle"]
    /\ UNCHANGED <<call, upstream, releases, notifications, slack, tickets,
                   enabled, request, new_releases, idx, response, analysis,
                   error, reply, log, started>>

\* ------------------------------------------------------------------------
\* main.py: force_analyze
\* ------------------------------------------------------------------------

\* the host receives POST /analyze/{version}
StartForce(p) ==
    /\ pc[p] = "idle"
    /\ p \notin started
    /\ started' = started \cup {p}
    /\ \E version \in Requestable(upstream) : request' = [request EXCEPT ![p] = version]
    /\ pc' = [pc EXCEPT ![p] = "fetch"]
    /\ new_releases' = [new_releases EXCEPT ![p] = <<>>]
    /\ idx' = [idx EXCEPT ![p] = 0]
    /\ response' = [response EXCEPT ![p] = NoResponse]
    /\ analysis' = [analysis EXCEPT ![p] = JNull]
    /\ error' = [error EXCEPT ![p] = ""]
    /\ reply' = [reply EXCEPT ![p] = 0]
    /\ log' = [log EXCEPT ![p] = <<>>]
    /\ UNCHANGED <<call, upstream, releases, notifications, slack, tickets,
                   enabled, faults>>

\* the handler returns a JSONResponse with this status
Respond(p, status) ==
    /\ pc' = [pc EXCEPT ![p] = "idle"]
    /\ reply' = [reply EXCEPT ![p] = status]

\* variant: a version upstream lacks raises, the except clause answers 500
ForceFetchNotFoundRaises(p) ==
    /\ pc[p] = "fetch"
    /\ LET fetched == FetchRelease(upstream, request[p]) IN
       IF fetched.found
       THEN /\ new_releases' = [new_releases EXCEPT ![p] = <<fetched.release>>]
            /\ idx' = [idx EXCEPT ![p] = 1]
            /\ pc' = [pc EXCEPT ![p] = "force_analyze"]
            /\ UNCHANGED <<reply, error>>
       ELSE /\ Respond(p, 500)
            /\ error' = [error EXCEPT ![p] = "not found"]
            /\ UNCHANGED <<new_releases, idx>>
    /\ UNCHANGED <<call, upstream, releases, notifications, slack, tickets,
                   enabled, request, response, analysis, log, started,
                   faults>>

\* release = await monitor.fetch_release(version); 404 if not release
ForceFetch(p) ==
    /\ pc[p] = "fetch"
    /\ LET fetched == FetchRelease(upstream, request[p]) IN
       IF fetched.found
       THEN /\ new_releases' = [new_releases EXCEPT ![p] = <<fetched.release>>]
            /\ idx' = [idx EXCEPT ![p] = 1]
            /\ pc' = [pc EXCEPT ![p] = "force_analyze"]
            /\ UNCHANGED reply
       ELSE /\ Respond(p, 404)
            /\ UNCHANGED <<new_releases, idx>>
    /\ UNCHANGED <<call, upstream, releases, notifications, slack, tickets,
                   enabled, request, response, analysis, error, log, started,
                   faults>>

\* fetch_release raises: the except clause answers 500
ForceFetchFails(p) ==
    /\ pc[p] = "fetch"
    /\ Fault
    /\ Respond(p, 500)
    /\ error' = [error EXCEPT ![p] = "upstream fetch failed"]
    /\ UNCHANGED <<call, upstream, releases, notifications, slack, tickets,
                   enabled, request, new_releases, idx, response, analysis,
                   log, started>>

\* analyze_release returned or raised: result
ForceAnalyzed(p, result) ==
    IF result.raised
    THEN /\ Respond(p, 500)
         /\ error' = [error EXCEPT ![p] = result.msg]
         /\ UNCHANGED <<analysis, log>>
    ELSE /\ analysis' = [analysis EXCEPT ![p] = result.v]
         /\ pc' = [pc EXCEPT ![p] = "force_store"]
         /\ Logged(p, "analyzed")
         /\ UNCHANGED <<error, reply>>

\* analysis = await ai_analyzer.analyze_release(release)
ForceAnalyze(p) ==
    /\ pc[p] = "force_analyze"
    /\ \E completion \in Completions, lookup \in Lookups :
          /\ response' = [response EXCEPT ![p] = completion]
          /\ ForceAnalyzed(p, AnalyzeRelease(Current(p), completion, lookup))
    /\ UNCHANGED <<call, upstream, releases, notifications, slack, tickets,
                   enabled, request, new_releases, idx, started, faults>>

\* variant: the analysis of a version already stored is kept
ForceStoreIfAbsent(p) ==
    /\ pc[p] = "force_store"
    /\ releases' = IF GetRelease(releases, request[p]).found
                   THEN releases
                   ELSE StoreRelease(releases, request[p], Current(p), analysis[p])
    /\ Respond(p, 200)
    /\ Logged(p, "stored")
    /\ UNCHANGED <<call, upstream, notifications, slack, tickets, enabled,
                   request, new_releases, idx, response, analysis, error,
                   started, faults>>

\* await db.store_release(version, release, analysis); answer 200
ForceStore(p) ==
    /\ pc[p] = "force_store"
    /\ releases' = StoreRelease(releases, request[p], Current(p), analysis[p])
    /\ Respond(p, 200)
    /\ Logged(p, "stored")
    /\ UNCHANGED <<call, upstream, notifications, slack, tickets, enabled,
                   request, new_releases, idx, response, analysis, error,
                   started, faults>>

\* the store write raises: the except clause answers 500
ForceStoreFails(p) ==
    /\ pc[p] = "force_store"
    /\ Fault
    /\ Respond(p, 500)
    /\ error' = [error EXCEPT ![p] = "database error"]
    /\ UNCHANGED <<call, upstream, releases, notifications, slack, tickets,
                   enabled, request, new_releases, idx, response, analysis,
                   log, started>>

\* the host cancels the task at the await it is suspended at (shutdown, a
\* dropped request): CancelledError is not an Exception, no except clause of
\* the handlers catches it, the handler is left at once
Cancel(p) ==
    /\ pc[p] # "idle"
    /\ Fault
    /\ pc' = [pc EXCEPT ![p] = "idle"]
    /\ error' = [error EXCEPT ![p] = "cancelled"]
    /\ UNCHANGED <<call, upstream, releases, notifications, slack, tickets,
                   enabled, request, new_releases, idx, response, analysis,
                   reply, log, started>>

\* ------------------------------------------------------------------------
\* The system
\* ------------------------------------------------------------------------

Next ==
    \/ \E p \in Tasks : StartRun(p)
    \/ \E p \in Tasks : CheckReleases(p)
    \/ \E p \in Tasks : CheckFails(p)
    \/ \E p \in Tasks : Analyze(p)
    \/ \E p \in Tasks : Store(p)
    \/ \E p \in Tasks : StoreFails(p)
    \/ \E p \in Tasks : NotifyRenderFails(p)
    \/ \E p \in Tasks : NotifyPost(p)
    \/ \E p \in Tasks : NotifyPostFails(p)
    \/ \E p \in Tasks : Record(p)
    \/ \E p \in Tasks : RecordFails(p)
    \/ \E p \in Tasks : JiraTicket(p)
    \/ \E p \in Tasks : JiraBodyFails(p)
    \/ \E p \in Tasks : ServiceNowTicket(p)
    \/ \E p \in Tasks : ServiceNowBodyFails(p)
    \/ \E p \in Tasks : Alert(p)
    \/ \E p \in Tasks : AlertFails(p)
    \/ \E p \in Tasks : StartForce(p)
    \/ \E p \in Tasks : ForceFetch(p)
    \/ \E p \in Tasks : ForceFetchFails(p)
    \/ \E p \in Tasks : ForceAnalyze(p)
    \/ \E p \in Tasks : ForceStore(p)
    \/ \E p \in Tasks : ForceStoreFails(p)
    \/ \E p \in Tasks : Cancel(p)

Spec == Init /\ [][Next]_vars

RaceSpec == RaceInit /\ [][Next]_vars

\* the event loop keeps running: a task that can take a step takes one, and
\* the host starts the handlers it has to start
LiveSpec == RaceInit /\ [][Next]_vars /\ WF_vars(Next)

\* ------------------------------------------------------------------------
\* analyze_release on its own, over the behaviours of the completion service
\* ------------------------------------------------------------------------

\* number of features in the longest feature list the service returns
MaxFeatures == 2

Features(n) == [i \in 1..n |-> Feature("f")]

SchemaText == Dumps(GoodAnalysis("critical", Features(MaxFeatures)))

\* a response cut short by the token ceiling: every proper prefix of a
\* response that follows the schema
Truncations == {SubSeq(SchemaText, 1, n) : n \in 0..(Len(SchemaText) - 1)}

\* responses that are JSON but not the schema's: not an object, or an object
\* whose new_features is not a list of objects with string titles
OffSchema ==
    { EmptyList, JList(<<Feature("f")>>), JStr("done"), JNum("1"), JNull,
      EmptyDict,
      JObj(<<JPair("new_features", JNull)>>),
      JObj(<<JPair("new_features", JNum("3"))>>),
      JObj(<<JPair("new_features", JStr(""))>>),
      JObj(<<JPair("new_features", Feature("f"))>>),
      JObj(<<JPair("new_features", JList(<<JStr("f")>>))>>),
      JObj(<<JPair("new_features", JList(<<JObj(<<JPair("title", JNull)>>)>>))>>),
      JObj(<<JPair("severity", JNull), JPair("error", JStr("quota"))>>) }

\* responses wrapped in fences or prose
Wrapped ==
    { <<FenceJson, Nl>> \o SchemaText \o <<Nl, Fence>>,
      <<Nl>> \o SchemaText \o <<Ws, Nl>>,
      SchemaText \o <<Nl, Prose("Let me know if you need more.")>>,
      <<Prose("Here is the analysis:"), Nl>> \o SchemaText,
      <<P("["), P("{"), P("}"), P("]"), Prose("done")>>,
      <<P("}"), Prose("x")>> }

AnyText == Truncations \cup {Dumps(v) : v \in OffSchema} \cup Wrapped
               \cup {NonJsonText, SchemaText}

\* every behaviour of the service on the analysis call
AnyCompletion == {ServiceDown} \cup {ServiceReturns(text) : text \in AnyText}

GoodResources ==
    JObj(<< JPair("documentation",
                  JList(<<JObj(<< JPair("title", JStr("Docs")),
                                  JPair("url", JStr("https://docs")) >>)>>)),
            JPair("kb_articles", EmptyList),
            JPair("videos", EmptyList) >>)

\* every behaviour of the service on the resource lookup
AnyLookup ==
    { ServiceDown,
      ServiceReturns(Dumps(GoodResources)),
      ServiceReturns(NonJsonText),
      ServiceReturns(Dumps(EmptyList)),
      ServiceReturns(Dumps(JObj(<<JPair("documentation", JNum("3"))>>))) }

AnalyzerInit ==
    /\ Startup(Feed(NumVersions), {"a"}, {Systems})
    /\ call \in { [release |-> Feed(NumVersions)[i], completion |-> completion,
                    lookup |-> lookup, done |-> FALSE, result |-> Return(JNull)] :
                      i \in 1..NumVersions, completion \in AnyCompletion,
                      lookup \in AnyLookup }

\* the caller awaits analyze_release(release)
AnalyzeCall ==
    /\ ~call.done
    /\ call' = [call EXCEPT
                  !.done = TRUE,
                  !.result = AnalyzeRelease(call.release, call.completion, call.lookup)]
    /\ UNCHANGED << upstream, releases, notifications, slack, tickets, enabled,
                    pc, request, new_releases, idx, response, analysis, error,
                    reply, log, started, faults >>

AnalyzerNext == AnalyzeCall

AnalyzerSpec == AnalyzerInit /\ [][AnalyzerNext]_vars

\* ------------------------------------------------------------------------
\* notify_new_release on its own, over the severities an analysis may carry
\* ------------------------------------------------------------------------

\* the severities of the data model, and values outside it
SeverityNames ==
    {"critical", "important", "normal", "low", "unknown", "Critical", "high", ""}

\* responses of the completion service: each severity, with no feature, a
\* feature, and a feature item without title; no severity; a null severity
SeverityCompletions ==
    { ServiceReturns(Dumps(GoodAnalysis(severity, features))) :
         severity \in SeverityNames,
         features \in {<<>>, <<Feature("f1")>>, <<EmptyDict>>} }
    \cup { ServiceReturns(Dumps(JObj(<<JPair("summary", JStr("overview"))>>))),
           ServiceReturns(Dumps(JObj(<<JPair("severity", JNull)>>))) }

\* the state of a run that has stored the first release of its batch with
\* the analysis of this response and is about to await notify_new_release
AboutToNotify(p, completion, result) ==
    /\ upstream = Feed(NumVersions)
    /\ releases = StoreRelease({}, VersionNames[1], UpstreamRelease(1), result.v)
    /\ notifications = <<>>
    /\ slack = <<>>
    /\ tickets = <<>>
    /\ enabled \in SUBSET Systems
    /\ pc = [q \in {p} |-> "notify"]
    /\ request = [q \in {p} |-> ""]
    /\ new_releases = [q \in {p} |-> Feed(NumVersions)]
    /\ idx = [q \in {p} |-> 1]
    /\ response = [q \in {p} |-> completion]
    /\ analysis = [q \in {p} |-> result.v]
    /\ error = [q \in {p} |-> ""]
    /\ reply = [q \in {p} |-> 0]
    /\ log = [q \in {p} |-> << Event("analyzed", VersionNames[1]),
                                Event("stored", VersionNames[1]) >>]
    /\ started = {p}
    /\ faults = 0
    /\ call = NoCall

RouterInit ==
    \E completion \in SeverityCompletions :
        AboutToNotify("a", completion,
                      AnalyzeRelease(UpstreamRelease(1), completion, ServiceDown))

\* the awaits of notify_new_release
RouterNext ==
    \/ \E p \in Tasks : NotifyRenderFails(p)
    \/ \E p \in Tasks : NotifyPost(p)
    \/ \E p \in Tasks : NotifyPostFails(p)
    \/ \E p \in Tasks : Record(p)
    \/ \E p \in Tasks : RecordFails(p)

RouterSpec == RouterInit /\ [][RouterNext]_vars

\* ------------------------------------------------------------------------
\* The helpers called on their own: the parser, the resource lookup, the
\* comparison and the priority tables, over a store that handlers have filled
\* ------------------------------------------------------------------------

\* JSON objects the completion service may return
JsonObjects ==
    { JObj(<<JPair("a", JNum("1"))>>), EmptyDict, NullTypeAnalysis,
      GoodAnalysis("critical", Features(MaxFeatures)) }

\* what may follow the object in the response text
TrailingTexts ==
    { <<Prose("TRAILING_GARBAGE")>>,
      <<Nl, Prose("Hope this helps"), Ws>>,
      <<P("]")>>,
      <<P(","), Ws, Tok("str", "x")>>,
      <<Nl, Fence, Nl, Prose("done")>>,
      <<Nl, Fence, Nl>>,
      <<P("{")>>,
      <<Prose("x"), P("}")>> }

\* the texts given to the parser
ParserTexts == AnyText \cup {Dumps(obj) \o rest : obj \in JsonObjects, rest \in TrailingTexts}

\* the callers of _parse_json_response
Contexts == {"analysis", "resources", "comparison"}

\* a response that follows the comparison schema
GoodComparison ==
    JObj(<< JPair("summary", JStr("minor update")),
            JPair("major_changes", JList(<<JStr("change")>>)),
            JPair("risk_level", JStr("low")) >>)

\* what the completion service may do on the comparison call
CompareCompletions ==
    { ServiceDown, ServiceReturns(NonJsonText), ServiceReturns(Dumps(GoodComparison)),
      ServiceReturns(Dumps(GoodComparison) \o <<Nl, Prose("Let me know.")>>),
      ServiceReturns(Dumps(EmptyList)) }

\* a response whose summary is null
NullSummaryAnalysis ==
    JObj(<< JPair("severity", JStr("low")), JPair("summary", JNull) >>)

\* the analyses analyze_release hands to store_release
StoredAnalyses ==
    { AnalyzeRelease(UpstreamRelease(1), completion, ServiceDown).v :
         completion \in Completions \cup {ServiceReturns(Dumps(NullSummaryAnalysis))} }

\* the stores handlers leave behind: no release, the first, the first two
Stores ==
    { {} }
    \cup { StoreRelease({}, VersionNames[1], UpstreamRelease(1), a) : a \in StoredAnalyses }
    \cup { StoreRelease(StoreRelease({}, VersionNames[1], UpstreamRelease(1), a),
                        VersionNames[2], UpstreamRelease(2), b) :
              a \in StoredAnalyses, b \in StoredAnalyses }

\* the severities handed to the priority tables
SeverityValues == {JStr(name) : name \in SeverityNames} \cup {JNull}

NewCall(op) ==
    [op |-> op, text |-> <<>>, context |-> "", analysis |-> JNull,
     completion |-> NoResponse, version1 |-> "", version2 |-> "",
     severity |-> JNull, done |-> FALSE,
     result |-> [out |-> Return(JNull), called |-> FALSE, codes |-> <<>>]]

\* one call of a helper, with its arguments and what the service will do
Calls ==
    { [NewCall("parse") EXCEPT !.text = text, !.context = context] :
         text \in ParserTexts, context \in Contexts }
    \cup { [NewCall("resources") EXCEPT !.analysis = ParseJsonResponse(text),
                                        !.completion = lookup] :
              text \in {Dumps(v) : v \in OffSchema} \cup {SchemaText, NonJsonText},
              lookup \in AnyLookup }
    \cup { [NewCall("compare") EXCEPT !.version1 = version1, !.version2 = version2,
                                      !.completion = completion] :
              version1 \in Requestable(Feed(NumVersions)),
              version2 \in Requestable(Feed(NumVersions)),
              completion \in CompareCompletions }
    \cup { [NewCall("priority") EXCEPT !.severity = severity] :
              severity \in SeverityValues }

\* the records record_notification left for the stored versions
Recorded(rows) ==
    LET stored == SelectSeq(SubSeq(VersionNames, 1, NumVersions),
                            LAMBDA version : GetRelease(rows, version).found)
    IN  [k \in 1..Len(stored) |->
            [id |-> k, version |-> stored[k],
             channel |-> Route(GetRelease(rows, stored[k]).analysis).channel]]

\* no handler is running; the store holds what the handlers stored (by a
\* pipeline run that recorded its notifications, or by forced reanalyses)
CallInit ==
    /\ upstream = Feed(NumVersions)
    /\ releases \in Stores
    /\ notifications \in {<<>>, Recorded(releases)}
    /\ slack = <<>>
    /\ tickets = <<>>
    /\ enabled = Systems
    /\ pc = <<>> /\ request = <<>> /\ new_releases = <<>> /\ idx = <<>>
    /\ response = <<>> /\ analysis = <<>> /\ error = <<>> /\ reply = <<>>
    /\ log = <<>>
    /\ started = {}
    /\ faults = 0
    /\ call \in Calls
    /\ call.op # "compare" => releases = {}

\* the call returns or raises; nothing but the caller's result changes
Called(result) ==
    /\ ~call.done
    /\ call' = [call EXCEPT !.done = TRUE, !.result = result]
    /\ UNCHANGED << upstream, releases, notifications, slack, tickets, enabled,
                    pc, request, new_releases, idx, response, analysis, error,
                    reply, log, started, faults >>

\* self._parse_json_response(response.text)
ParseCall ==
    /\ call.op = "parse"
    /\ Called([out |-> Return(ParseJsonResponse(call.text)),
               called |-> FALSE, codes |-> <<>>])

\* await self._find_resources(version, analysis)
ResourcesCall ==
    /\ call.op = "resources"
    /\ Called([out |-> FindResources(VersionNames[1], call.analysis,
                                     call.completion),
               called |-> TRUE, codes |-> <<>>])

\* await self.ai.compare_versions(versions[0], versions[1])
CompareCall ==
    /\ call.op = "compare"
    /\ LET compared == CompareVersions(releases, call.version1, call.version2,
                                       call.completion)
       IN  Called([out |-> compared.out, called |-> compared.called,
                   codes |-> <<>>])

\* _get_jira_priority, _get_snow_urgency, _get_snow_impact
PriorityCall ==
    /\ call.op = "priority"
    /\ Called([out |-> Return(JNull), called |-> FALSE,
               codes |-> << JiraPriority(call.severity),
                            SnowUrgency(call.severity),
                            SnowImpact(call.severity) >>])

CallNext ==
    \/ ParseCall
    \/ ResourcesCall
    \/ CompareCall
    \/ PriorityCall

CallSpec == CallInit /\ [][CallNext]_vars

\* ------------------------------------------------------------------------
\* The store with its clock: the handlers' writes as single calls, and the
\* requests that read it (latest, list, search, compare)
\* ------------------------------------------------------------------------

\* last second of the clock
MaxClock == 2

\* number of notification records the handlers leave
MaxRecords == 1

\* the analyses the handlers store
ClockAnalyses ==
    { AnalyzeRelease(UpstreamRelease(1), completion, ServiceDown).v :
         completion \in { ServiceReturns(Dumps(GoodAnalysis("critical", <<>>))),
                          ServiceReturns(Dumps(NullSummaryAnalysis)) } }

\* what the completion service may do on the comparison call of a request
ClockCompletions ==
    { ServiceDown, ServiceReturns(NonJsonText), ServiceReturns(Dumps(GoodComparison)) }

\* what a search request may ask for
Queries == {"v2.13", "Critical", "rke2"}

\* the last call made on the store, the second it was made in, what it gave
ClockCall(op, now, out, rows) == [op |-> op, now |-> now, out |-> out, rows |-> rows]

\* an empty store at second 0, no handler running
ClockInit ==
    /\ upstream = Feed(NumVersions)
    /\ releases = {}
    /\ notifications = <<>>
    /\ slack = <<>>
    /\ tickets = <<>>
    /\ enabled = Systems
    /\ pc = <<>> /\ request = <<>> /\ new_releases = <<>> /\ idx = <<>>
    /\ response = <<>> /\ analysis = <<>> /\ error = <<>> /\ reply = <<>>
    /\ log = <<>>
    /\ started = {}
    /\ faults = 0
    /\ call = ClockCall("", 0, Return(JNull), <<>>)

\* nothing of the handlers changes in a call on the store
ClockFrame ==
    UNCHANGED << upstream, slack, tickets, enabled, pc, request, new_releases,
                 idx, response, analysis, error, reply, log, started, faults >>

\* a second passes
Tick ==
    /\ call.now < MaxClock
    /\ call' = [call EXCEPT !.now = @ + 1]
    /\ UNCHANGED <<releases, notifications>>
    /\ ClockFrame

\* await self.db.store_release(version, release, analysis), from a pipeline
\* run or from a forced reanalysis
StoreRequest ==
    \E i \in 1..Len(upstream), stored \in ClockAnalyses :
        /\ call' = ClockCall("store", call.now, Return(JNull), <<VersionNames[i]>>)
        /\ releases' = StoreReleaseAt(releases, VersionNames[i], upstream[i],
                                      stored, call.now)
        /\ UNCHANGED notifications
        /\ ClockFrame

\* await self.db.record_notification(version, channel), for a stored version
RecordRequest ==
    \E row \in releases :
        /\ Len(notifications) < MaxRecords
        /\ call' = ClockCall("record", call.now, Return(JNull), <<row.version>>)
        /\ notifications' =
              RecordNotification(notifications, row.version,
                                 Route(Loads(row.analysis).v).channel)
        /\ UNCHANGED releases
        /\ ClockFrame

\* release = await self.db.get_latest_release()
LatestRequest ==
    \E version \in GetLatestRelease(releases) :
        /\ call' = ClockCall("latest", call.now, Return(JNull), <<version>>)
        /\ UNCHANGED <<releases, notifications>>
        /\ ClockFrame

\* releases = await db.get_all_releases()
ListRequest ==
    \E versions \in GetAllReleases(releases, 100) :
        /\ call' = ClockCall("list", call.now, Return(JNull), versions)
        /\ UNCHANGED <<releases, notifications>>
        /\ ClockFrame

\* results = await self.db.search_releases(query)
SearchRequest ==
    \E query \in Queries :
        \E found \in SearchReleases(releases, query) :
            /\ call' = ClockCall("search", call.now,
                                 IF found.raised
                                 THEN Raise("AttributeError: no attribute 'get'")
                                 ELSE Return(JStr(query)),
                                 [i \in 1..Len(found.rows) |-> found.rows[i].version])
            /\ UNCHANGED <<releases, notifications>>
            /\ ClockFrame

\* variant: the comparison is kept as a row of table releases
CompareRequestPersists ==
    \E version1 \in Requestable(upstream), version2 \in Requestable(upstream),
       completion \in ClockCompletions :
        LET compared == CompareVersions(releases, version1, version2, completion)
        IN  /\ call' = ClockCall("compare", call.now, compared.out, <<version1, version2>>)
            /\ releases' =
                 IF compared.out.raised THEN releases
                 ELSE StoreReleaseAt(releases, "comparison", EmptyDict,
                                     compared.out.v, call.now)
            /\ UNCHANGED notifications
            /\ ClockFrame

\* comparison = await self.ai.compare_versions(versions[0], versions[1])
CompareRequest ==
    \E version1 \in Requestable(upstream), version2 \in Requestable(upstream),
       completion \in ClockCompletions :
        LET compared == CompareVersions(releases, version1, version2, completion)
        IN  /\ call' = ClockCall("compare", call.now, compared.out, <<version1, version2>>)
            /\ UNCHANGED <<releases, notifications>>
            /\ ClockFrame

ClockNext ==
    \/ Tick
    \/ StoreRequest
    \/ RecordRequest
    \/ LatestRequest
    \/ ListRequest
    \/ SearchRequest
    \/ CompareRequest

ClockSpec == ClockInit /\ [][ClockNext]_vars

\* ------------------------------------------------------------------------
\* Properties
\* ------------------------------------------------------------------------

Severity(a) == DictGet(a, "severity", JNull)

\* the text stays unparseable after the repair
Unparseable(text) ==
    /\ ~Loads(CleanText(text)).ok
    /\ ~Loads(Repaired(CleanText(text))).ok

\* the completion call failed beyond recovery: it raised, or its text is
\* unparseable after the repair
Unrecoverable(completion) == completion.raises \/ Unparseable(completion.text)

ListFields == {"new_features", "bug_fixes", "breaking_changes", "security_updates"}

AnalysisFields ==
    ListFields \cup {"release_type", "severity", "summary", "recommended_actions",
                     "upgrade_notes", "resources", "error"}

\* a complete fallback record: every field of an Analysis, and the error
IsFallbackRecord(a) ==
    /\ IsDict(a)
    /\ \A f \in AnalysisFields : HasKey(a, f)
    /\ \A f \in ListFields \cup {"recommended_actions"} : IsList(DictGet(a, f, JNull))
    /\ IsStr(Severity(a))
    /\ IsDict(DictGet(a, "resources", JNull))
    /\ Truthy(DictGet(a, "error", JNull))

\* the task completes a store_release in this step
StoredBy(p) ==
    /\ pc[p] \in {"store", "force_store"}
    /\ log'[p] = Append(log[p], Event("stored", Version(p)))

Steps(p) == {log[p][i].step : i \in 1..Len(log[p])}

\* the positions in the log of task p of a step of these kinds for the version
At(p, kinds, version) ==
    {i \in 1..Len(log[p]) : log[p][i].step \in kinds /\ log[p][i].version = version}

\* C1: every Release record of the store has a non-null Analysis, a dict; one
\* that carries an error is a complete fallback record; and a task whose
\* analysis failed holds such a record when it reaches the store step.
C1_StoredAnalysisWellFormed ==
    /\ \A row \in releases :
          /\ Loads(row.analysis).ok
          /\ IsDict(Loads(row.analysis).v)
          /\ HasKey(Loads(row.analysis).v, "error")
                => IsFallbackRecord(Loads(row.analysis).v)
    /\ \A p \in Tasks :
          pc[p] \in {"store", "force_store"}
             => /\ IsDict(analysis[p])
                /\ Unrecoverable(response[p]) => IsFallbackRecord(analysis[p])

\* a release stored by a forced reanalysis or a run whose analysis failed
C1_Witness ==
    \E row \in releases : \E p \in Tasks :
        /\ Unrecoverable(response[p])
        /\ "stored" \in Steps(p)
        /\ row.analysis = Dumps(analysis[p])
        /\ HasKey(Loads(row.analysis).v, "error")

\* C2: analyze_release never raises: whatever the completion service does on
\* the analysis call and on the resource lookup, the call returns a dict.
C2_AnalyzeNeverRaises ==
    call.done => ~call.result.raised /\ IsDict(call.result.v)

\* the service answered with JSON that is not an object
C2_Witness ==
    /\ call.done
    /\ call.completion = ServiceReturns(Dumps(EmptyList))
    /\ ~call.result.raised

\* C3 as claimed: on every unrecoverable failure the result has severity
\* "normal", the five list fields empty, a summary and the error message.
C3_CanonicalFallback ==
    (call.done /\ Unrecoverable(call.completion))
       => /\ Severity(call.result.v) = JStr("normal")
          /\ \A f \in ListFields \cup {"recommended_actions"} :
                DictGet(call.result.v, f, JNull) = EmptyList
          /\ Truthy(DictGet(call.result.v, "summary", JNull))
          /\ Truthy(DictGet(call.result.v, "error", JNull))

\* C3 amended: on a failure path the four structured lists are empty, the
\* summary states the failure and error is the underlying message; severity is
\* "normal" when the text stays unparseable and "unknown" when the call
\* raises; recommended_actions is a non-empty list of manual-review advice.
C3_FallbackByPath ==
    (call.done /\ Unrecoverable(call.completion))
       => /\ ~call.result.raised
          /\ \A f \in ListFields : DictGet(call.result.v, f, JNull) = EmptyList
          /\ IsList(DictGet(call.result.v, "recommended_actions", JNull))
          /\ JStr("Review release manually")
                \in {DictGet(call.result.v, "recommended_actions", EmptyList).l[i] :
                       i \in 1..Len(DictGet(call.result.v, "recommended_actions",
                                            EmptyList).l)}
          /\ IF call.completion.raises
             THEN /\ Severity(call.result.v) = JStr("unknown")
                  /\ DictGet(call.result.v, "summary", JNull)
                        = JStr("Analysis failed due to error")
                  /\ DictGet(call.result.v, "error", JNull) = JStr(call.completion.msg)
             ELSE /\ Severity(call.result.v) = JStr("normal")
                  /\ DictGet(call.result.v, "summary", JNull)
                        = JStr("Failed to parse analysis. Please check logs.")
                  /\ DictGet(call.result.v, "error", JNull)
                        = JStr(Loads(CleanText(call.completion.text)).msg)
                  /\ Loads(CleanText(call.completion.text)).msg # ""

\* the completion call raised and analyze_release returned its error response
C3_Witness ==
    /\ call.done
    /\ call.completion.raises
    /\ Severity(call.result.v) = JStr("unknown")

\* C4: in a pipeline run that is not cancelled, the analysis step always
\* leads to the store step,
\* and when the completion text was not JSON the store step that completes
\* leaves a record of that release whose analysis has severity "normal" and a
\* populated error.
C4_NonJsonStillStored ==
    [][\A p \in Tasks :
          /\ (pc[p] = "analyze" /\ pc'[p] # "analyze" /\ error'[p] # "cancelled")
                => pc'[p] = "store"
          /\ (/\ pc[p] = "store" /\ pc'[p] = "notify"
              /\ ~response[p].raises /\ Unparseable(response[p].text))
                => /\ GetRelease(releases', Version(p)).found
                   /\ Severity(GetRelease(releases', Version(p)).analysis)
                         = JStr("normal")
                   /\ Truthy(DictGet(GetRelease(releases', Version(p)).analysis,
                                     "error", JNull))]_vars

\* a run stored a release whose completion text was not JSON
C4_Witness ==
    \E p \in Tasks :
        /\ pc[p] = "notify"
        /\ response[p] = ServiceReturns(NonJsonText)
        /\ GetRelease(releases, Version(p)).found
        /\ Severity(GetRelease(releases, Version(p)).analysis) = JStr("normal")

\* C5: store_release(version, rawData, analysis) followed by get_release(version)
\* returns the version, the release data and the analysis that were stored.
C5_StoreGetRoundTrip ==
    [][\A p \in Tasks :
          StoredBy(p)
             => GetRelease(releases', Version(p))
                   = [found |-> TRUE, version |-> Version(p),
                      release_data |-> Current(p), analysis |-> analysis[p]]]_vars

\* a stored release whose analysis holds nested dicts, lists and a null
C5_Witness ==
    \E p \in Tasks :
        /\ pc[p] = "notify"
        /\ GetRelease(releases, Version(p)).analysis = analysis[p]
        /\ DictGet(analysis[p], "release_type", JStr("")) = JNull
        /\ HasKey(DictGet(analysis[p], "resources", JNull), "documentation")

\* C6: the store holds at most one row per version; a store_release leaves
\* exactly the row of its own release data and analysis for its version, and
\* nothing but a store_release changes the table.
C6_OneRowPerVersionLastWins ==
    [][/\ \A r1, r2 \in releases' : r1.version = r2.version => r1 = r2
       /\ \A p \in Tasks :
             StoredBy(p)
                => {r \in releases' : r.version = Version(p)}
                      = {ReleaseRow(Version(p), Current(p), analysis[p])}
       /\ releases' # releases => \E p \in Tasks : StoredBy(p)]_vars

\* two tasks stored different analyses of one version; the later one is kept
C6_Witness ==
    \E p, q \in Tasks :
        /\ p # q
        /\ "stored" \in Steps(p) /\ "stored" \in Steps(q)
        /\ new_releases[p] = new_releases[q]
        /\ analysis[p] # analysis[q]
        /\ releases = {ReleaseRow(Version(q), Current(q), analysis[q])}

NotifyDone == {"post_failed", "recorded", "record_failed"}

\* C7: in the steps of a task, a version is stored only after it was analyzed,
\* posted only after it was stored, and ticketed only after its notification
\* step finished; ServiceNow comes after Jira.
C7_StepOrder ==
    \A p \in Tasks : \A k \in 1..Len(log[p]) :
        LET before(kinds) == \E j \in At(p, kinds, log[p][k].version) : j < k
            step == log[p][k].step
        IN  /\ step = "stored" => before({"analyzed"})
            /\ step \in {"posted", "post_failed"} => before({"stored"})
            /\ step \in {"recorded", "record_failed"} => before({"posted"})
            /\ step \in {"jira", "servicenow"} => before(NotifyDone)
            /\ step = "servicenow"
                  => \A j \in At(p, {"jira"}, log[p][k].version) : j < k

\* a critical release went through every step, tickets in both systems
C7_Witness ==
    \E p \in Tasks :
        {"analyzed", "stored", "posted", "recorded", "jira", "servicenow"}
            \subseteq Steps(p)

\* position of a version in the batch of task p
Pos(p, version) ==
    CHOOSE i \in 1..Len(new_releases[p]) : TagName(new_releases[p][i]) = version

\* C8: a pipeline run takes the releases of its batch one at a time in the
\* order the detector returned them: the steps of its log never go back to an
\* earlier release, and none belongs to a release after the one in hand.
C8_BatchInOrder ==
    \A p \in Tasks :
        /\ \A i, j \in 1..Len(log[p]) :
              i < j => Pos(p, log[p][i].version) <= Pos(p, log[p][j].version)
        /\ \A i \in 1..Len(log[p]) : Pos(p, log[p][i].version) <= idx[p]
        /\ pc[p] \in {"analyze", "store", "notify", "record", "jira", "servicenow"}
              => \A i \in 1..Len(log[p]) :
                    Pos(p, log[p][i].version) < idx[p]
                       => At(p, NotifyDone, log[p][i].version) # {}

\* a run finished the first release of its batch and is at the second
C8_Witness ==
    \E p \in Tasks :
        /\ Len(new_releases[p]) >= 2
        /\ idx[p] = 2
        /\ At(p, {"stored"}, Version(p)) # {}
        /\ At(p, NotifyDone, TagName(new_releases[p][1])) # {}

RouterOrEscalationErrors == {"render failed", "ticket description failed"}

\* the release at position i of the batch was analyzed, stored and notified
Processed(p, i) ==
    /\ At(p, {"analyzed"}, TagName(new_releases[p][i])) # {}
    /\ At(p, {"stored"}, TagName(new_releases[p][i])) # {}
    /\ At(p, {"posted", "post_failed"}, TagName(new_releases[p][i])) # {}

\* C9 as claimed: whatever failure of the Notification Router or of the
\* Escalation Manager ended the processing of a release, every later release
\* of the batch was analyzed, stored and notified when the run is over.
C9_LaterReleasesStillProcessed ==
    \A p \in Tasks :
        (/\ pc[p] = "idle" /\ request[p] = ""
         /\ error[p] \in RouterOrEscalationErrors)
           => \A i \in (idx[p] + 1)..Len(new_releases[p]) : Processed(p, i)

\* C10: a ticket is created only for an analysis whose severity is exactly
\* "critical": a create request is sent only by a pipeline run holding such
\* an analysis, for the release in hand and with the critical mapping, and a
\* task enters create_ticket only with such an analysis.
C10_TicketsOnlyForCritical ==
    [][/\ tickets' # tickets
          => \E p \in Tasks :
                /\ pc[p] \in {"jira", "servicenow"}
                /\ request[p] = ""
                /\ Severity(analysis[p]) = JStr("critical")
                /\ Len(tickets') = Len(tickets) + 1
                /\ SubSeq(tickets', 1, Len(tickets)) = tickets
                /\ tickets'[Len(tickets')].version = Version(p)
                /\ tickets'[Len(tickets')].system = pc[p]
                /\ IF pc[p] = "jira"
                   THEN /\ tickets'[Len(tickets')].label = "critical"
                        /\ tickets'[Len(tickets')].priority = "Highest"
                   ELSE /\ tickets'[Len(tickets')].urgency = "1"
                        /\ tickets'[Len(tickets')].impact = "1"
       /\ \A p \in Tasks :
             pc'[p] \in {"jira", "servicenow"}
                => Severity(analysis'[p]) = JStr("critical") /\ request'[p] = ""]_vars

\* a run ticketed a critical release and passed a non-critical one by
C10_Witness ==
    /\ tickets # <<>>
    /\ \E p \in Tasks :
          /\ pc[p] = "idle" /\ error[p] = ""
          /\ Len(new_releases[p]) = 2
          /\ Cardinality({tickets[k].version : k \in 1..Len(tickets)}) = 1
          /\ At(p, NotifyDone, TagName(new_releases[p][1])) # {}
          /\ At(p, NotifyDone, TagName(new_releases[p][2])) # {}

\* the create requests sent to a tracking system for a version
Attempts(system, version) ==
    {k \in 1..Len(tickets) :
        tickets[k].system = system /\ tickets[k].version = version}

\* the run of task p has left create_ticket for the release it has in hand
LeftCreateTicket(p) ==
    /\ request[p] = ""
    /\ idx[p] \in 1..Len(new_releases[p])
    /\ At(p, NotifyDone, Version(p)) # {}
    /\ pc[p] \in {"idle", "alert"}
    /\ error[p] # "cancelled"

\* C11 as claimed: once create_ticket is over for a critical release, every
\* enabled tracking system has received exactly one create request for it
\* (two requests with both enabled), whatever the outcome of the first.
C11_OneAttemptPerEnabledSystem ==
    \A p \in Tasks :
        (LeftCreateTicket(p) /\ Severity(analysis[p]) = JStr("critical"))
           => \A system \in Systems :
                 Cardinality(Attempts(system, Version(p)))
                    = IF system \in enabled THEN 1 ELSE 0

\* the channel of the two-valued partition of the severities
ChannelOf(a) ==
    IF Severity(a) = JStr("critical") THEN "critical" ELSE "releases"

\* C12: notify_new_release posts, and records the notification, on the
\* critical channel when the severity is "critical" and on the releases
\* channel for every other severity, a missing one included.
C12_TwoValuedRouting ==
    \A p \in Tasks :
        /\ \A k \in 1..Len(slack) :
              slack[k].version = Version(p) => slack[k].channel = ChannelOf(analysis[p])
        /\ \A k \in 1..Len(notifications) :
              notifications[k].version = Version(p)
                 => notifications[k].channel = ChannelOf(analysis[p])

\* a release of severity "important" was posted and recorded
C12_Witness ==
    \E p \in Tasks :
        /\ Severity(analysis[p]) = JStr("important")
        /\ Len(slack) = 1 /\ slack[1].channel = "releases"
        /\ Len(notifications) = 1 /\ notifications[1].channel = "releases"

\* the notification records of a version
Records(version) ==
    {k \in 1..Len(notifications) : notifications[k].version = version}

\* task p is a pipeline run that went through its whole batch: no failure of
\* a collaborator, no exception caught
CleanRunOver(p) ==
    /\ pc[p] = "idle"
    /\ request[p] = ""
    /\ new_releases[p] # <<>>
    /\ error[p] = ""
    /\ faults = 0

\* what a clean run leaves for one release of its batch
Delivered(release, stored) ==
    /\ stored.found
    /\ stored.release_data = release
    /\ Cardinality(Records(TagName(release))) = 1
    /\ \A k \in Records(TagName(release)) :
          notifications[k].channel = ChannelOf(stored.analysis)
    /\ \A system \in Systems :
          Cardinality(Attempts(system, TagName(release)))
             = IF system \in enabled /\ Severity(stored.analysis) = JStr("critical")
               THEN 1 ELSE 0

\* C13: when a pipeline run without failure is over, every release of its
\* batch is stored and has exactly one notification record, on the channel of
\* its severity; a critical one has one create request in every enabled
\* tracking system, any other has none.
C13_CleanRunDelivers ==
    \A p \in Tasks :
        CleanRunOver(p)
           => \A i \in 1..Len(new_releases[p]) :
                 Delivered(new_releases[p][i],
                           GetRelease(releases, TagName(new_releases[p][i])))

\* a clean run over a critical and a non-critical release, both systems enabled
C13_Witness ==
    \E p \in Tasks :
        /\ CleanRunOver(p)
        /\ enabled = Systems
        /\ Len(new_releases[p]) = 2
        /\ Len(tickets) = 2
        /\ Len(notifications) = 2
        /\ {notifications[k].channel : k \in 1..2} = {"critical", "releases"}

\* the messages posted about a version
Posts(version) ==
    {k \in 1..Len(slack) : slack[k].version = version}

\* the error alerts posted with this text
Alerts(text) ==
    {k \in 1..Len(slack) : slack[k].channel = TeamChannel /\ slack[k].text = text}

\* C14: a store_release that fails ends the processing of its release: the
\* run leaves the store step for the except clause with the database error
\* and the table unchanged; the release has no post, no notification record
\* and no create request, and the error is reported by an alert.
C14_StoreFailureIsFatal ==
    [][\A p \in Tasks :
          /\ (pc[p] = "store" /\ pc'[p] # "store" /\ ~StoredBy(p)
              /\ error'[p] # "cancelled")
                => /\ pc'[p] = "alert"
                   /\ error'[p] = "database error"
                   /\ releases' = releases
          /\ (request'[p] = "" /\ error'[p] = "database error")
                => /\ pc'[p] \in {"alert", "idle"}
                   /\ ~GetRelease(releases', TagName(new_releases'[p][idx'[p]])).found
                   /\ Posts(TagName(new_releases[p][idx[p]]))' = {}
                   /\ Records(TagName(new_releases[p][idx[p]]))' = {}
                   /\ \A system \in Systems :
                         Attempts(system, TagName(new_releases[p][idx[p]]))' = {}
                   /\ At(p, NotifyDone \cup {"stored", "posted", "jira", "servicenow"},
                         TagName(new_releases[p][idx[p]]))' = {}
                   /\ pc'[p] = "idle"
                         => Alerts("database error")' # {} \/ faults' >= 2]_vars

\* the store of the second release of a batch failed; the alert was posted
C14_Witness ==
    \E p \in Tasks :
        /\ pc[p] = "idle" /\ request[p] = ""
        /\ error[p] = "database error"
        /\ idx[p] = 2
        /\ Records(TagName(new_releases[p][1])) # {}
        /\ Alerts("database error") # {}

\* the run of task p was aborted because the release list could not be fetched
FetchAborted(p) ==
    request[p] = "" /\ error[p] = "upstream fetch failed"

\* task q is a pipeline run that is over and met no failure of its own
RunOverUnharmed(q) ==
    /\ pc[q] = "idle" /\ request[q] = "" /\ error[q] = ""
    /\ new_releases[q] # <<>>
    /\ Steps(q) \cap {"post_failed", "record_failed"} = {}

\* C15: when check_for_new_releases raises, the run goes to the except clause
\* having analyzed, stored, notified and escalated nothing; store and tracking
\* systems are as they were, an alert is sent, and another run that is over
\* without a failure of its own has stored and notified its whole batch,
\* leaving every upstream version in the store.
C15_FetchFailureAbortsOneCycle ==
    [][\A p \in Tasks :
          /\ (pc[p] = "check" /\ error'[p] = "upstream fetch failed")
                => /\ pc'[p] = "alert"
                   /\ UNCHANGED <<releases, notifications, tickets, slack>>
          /\ (pc[p] = "alert" /\ pc'[p] # "alert" /\ FetchAborted(p))
                => /\ pc'[p] = "idle"
                   /\ UNCHANGED <<releases, notifications, tickets>>
                   /\ Alerts("upstream fetch failed")' # {} \/ faults' >= 2
          /\ FetchAborted(p)'
                => /\ log'[p] = <<>> /\ new_releases'[p] = <<>>
                   /\ pc'[p] \in {"alert", "idle"}
                   /\ \A q \in Tasks :
                         RunOverUnharmed(q)'
                            => /\ \A i \in 1..Len(upstream) :
                                     GetRelease(releases', TagName(upstream[i])).found
                               /\ \A i \in 1..Len(new_releases'[q]) :
                                     Records(TagName(new_releases[q][i]))' # {}]_vars

\* one run was aborted at the fetch and sent its alert; another then posted
\* and processed the whole feed
C15_Witness ==
    \E p, q \in Tasks :
        /\ FetchAborted(p) /\ pc[p] = "idle"
        /\ Alerts("upstream fetch failed") # {}
        /\ RunOverUnharmed(q)
        /\ new_releases[q] = upstream
        /\ Cardinality(releases) = Len(upstream)
        /\ \E k \in Alerts("upstream fetch failed") :
              \E j \in Posts(TagName(upstream[1])) : k < j

\* task p is a pipeline run that went through its whole batch
RunCompleted(p) ==
    /\ pc[p] = "idle" /\ request[p] = "" /\ error[p] = ""
    /\ new_releases[p] # <<>>

\* C16: a pipeline run that gets its batch from the detector after another
\* run went through its whole batch finds nothing new and returns at once:
\* no analysis, no store write, no post, no record and no create request;
\* the detection itself changes nothing in the store.
C16_RerunProcessesNothing ==
    [][\A q \in Tasks :
          (pc[q] = "check" /\ pc'[q] # "check")
             => /\ UNCHANGED <<releases, notifications, tickets>>
                /\ (error'[q] = "" /\ \E p \in Tasks \ {q} : RunCompleted(p))
                      => /\ new_releases'[q] = <<>>
                         /\ pc'[q] = "idle"
                         /\ log'[q] = <<>>
                         /\ response'[q] = NoResponse
                         /\ slack' = slack]_vars

\* a run processed the feed; a second run found nothing and did nothing
C16_Witness ==
    \E p, q \in Tasks :
        /\ p # q
        /\ RunCompleted(p) /\ new_releases[p] = upstream
        /\ q \in started /\ pc[q] = "idle" /\ request[q] = "" /\ error[q] = ""
        /\ new_releases[q] = <<>> /\ log[q] = <<>>
        /\ Cardinality(Posts(TagName(upstream[1]))) <= 1

\* the versions of the batch of a task
Batch(p) == {TagName(new_releases[p][i]) : i \in 1..Len(new_releases[p])}

\* C17: no lock and no uniqueness constraint stand between two pipeline runs:
\* a run that asks the detector gets every upstream version absent from the
\* store, those another run has in its batch included, and each completed
\* record_notification adds a row whatever the table holds; so one version
\* can be analyzed twice and have two notification records.
C17_NoGuardAgainstDuplicates ==
    [][\A q \in Tasks :
          /\ (pc[q] = "check" /\ pc'[q] \in {"analyze", "idle"} /\ error'[q] = "")
                => Batch(q)' = {TagName(upstream[i]) : i \in 1..Len(upstream)}
                                  \ {r.version : r \in releases}
          /\ (pc[q] = "record"
              /\ log'[q] = Append(log[q], Event("recorded", Version(q))))
                => /\ Len(notifications') = Len(notifications) + 1
                   /\ notifications'[Len(notifications')].version = Version(q)]_vars

\* two runs analyzed the same version and each recorded its notification
C17_Witness ==
    \E p, q \in Tasks : \E i \in 1..Len(upstream) :
        /\ p # q
        /\ request[p] = "" /\ request[q] = ""
        /\ At(p, {"analyzed"}, TagName(upstream[i])) # {}
        /\ At(q, {"analyzed"}, TagName(upstream[i])) # {}
        /\ At(p, {"recorded"}, TagName(upstream[i])) # {}
        /\ At(q, {"recorded"}, TagName(upstream[i])) # {}
        /\ Cardinality(Records(TagName(upstream[i]))) = 2
        /\ Cardinality({notifications[k].channel :
                           k \in Records(TagName(upstream[i]))}) = 1

\* the versions some task has completed a store_release for
StoredBySomeTask ==
    UNION {{log[q][k].version : k \in {j \in 1..Len(log[q]) : log[q][j].step = "stored"}}
              : q \in Tasks}

AllUpstreamStored ==
    \A i \in 1..Len(upstream) : GetRelease(releases, TagName(upstream[i])).found

\* C18, safety: a version is in the store only if some task completed its
\* store step, and the step that stops a run (abort or cancellation) writes
\* nothing to the store, so the releases a stopped run did not store are
\* absent unless another task stored them; and a run that asks the detector
\* gets every absent version of the batch of a stopped run.
C18_Unstored ==
    [][/\ {r.version : r \in releases'} \subseteq StoredBySomeTask'
       /\ \A p \in Tasks :
             (pc[p] # "idle" /\ pc'[p] = "idle" /\ error'[p] # "")
                => releases' = releases /\ log'[p] = log[p]
       /\ \A q \in Tasks :
             (pc[q] = "check" /\ pc'[q] \in {"analyze", "idle"} /\ error'[q] = "")
                => \A p \in Tasks \ {q} :
                      (pc[p] = "idle" /\ request[p] = "" /\ error[p] # "")
                         => Batch(p) \ {r.version : r \in releases} \subseteq Batch(q)']_vars

\* C18, liveness: every pipeline run that asks the detector comes to an end,
\* and unless it met a failure of its own it leaves every upstream version in
\* the store.
C18_Eventually ==
    \A i \in 1..MaxTasks :
        (pc[TaskNames[i]] = "check" /\ request[TaskNames[i]] = "")
           ~> (/\ pc[TaskNames[i]] = "idle"
               /\ error[TaskNames[i]] # "" \/ AllUpstreamStored)

ForcedMissing(p) ==
    /\ request[p] # ""
    /\ ~FetchRelease(upstream, request[p]).found

\* C19: a forced reanalysis of a version upstream lacks never gets past the
\* fetch: no completion call and no analysis; the step it takes writes
\* nothing to the releases store, the notification log, the channel or the
\* tickets, and unless the fetch itself failed or the task was cancelled it
\* ends the handler with the 404 error value and no exception.
C19_MissingVersionIsNotFound ==
    [][\A p \in Tasks :
          /\ ForcedMissing(p)'
                => /\ pc'[p] \in {"fetch", "idle"}
                   /\ response'[p] = NoResponse
                   /\ analysis'[p] = JNull
                   /\ log'[p] = <<>>
                   /\ reply'[p] \in {0, 404, 500}
          /\ (ForcedMissing(p) /\ pc[p] = "fetch" /\ pc'[p] # "fetch")
                => /\ releases' = releases
                   /\ notifications' = notifications
                   /\ slack' = slack
                   /\ tickets' = tickets
                   /\ pc'[p] = "idle"
                   /\ faults' = faults => reply'[p] = 404 /\ error'[p] = ""]_vars

\* the handler answered 404 for the version upstream lacks, with a release
\* in the store and a record in the notification log
C19_Witness ==
    \E p \in Tasks :
        /\ ForcedMissing(p)
        /\ pc[p] = "idle"
        /\ reply[p] = 404
        /\ error[p] = ""
        /\ releases # {}
        /\ notifications # <<>>

\* task p handles a forced reanalysis
Forced(p) == request[p] # ""

\* the rows of other versions than this one
Others(rows, version) == {r \in rows : r.version # version}

\* C20: a forced reanalysis of a version upstream has goes on to the analysis
\* whether or not the version is stored; its store step leaves exactly the
\* row of its payload and analysis for the version and the other rows as they
\* were; storing the same payload and analysis once more leaves the table as
\* it is; and no step of the handler posts to the channel, appends a
\* notification record or makes a ticket request.
C20_ForcedReanalysisIdempotent ==
    [][\A p \in Tasks :
          /\ (/\ Forced(p) /\ pc[p] = "fetch" /\ pc'[p] # "fetch"
              /\ faults' = faults
              /\ FetchRelease(upstream, request[p]).found)
                => /\ pc'[p] = "force_analyze"
                   /\ new_releases'[p] = <<FetchRelease(upstream, request[p]).release>>
          /\ (Forced(p)' /\ pc'[p] # pc[p])
                => /\ notifications' = notifications
                   /\ slack' = slack
                   /\ tickets' = tickets
          /\ (Forced(p) /\ StoredBy(p))
                => /\ {r \in releases' : r.version = request[p]}
                         = {ReleaseRow(request[p], Current(p), analysis[p])}
                   /\ Others(releases', request[p]) = Others(releases, request[p])
                   /\ StoreRelease(releases', request[p], Current(p), analysis[p])
                         = releases'
                   /\ ReleaseRow(request[p], Current(p), analysis[p]) \in releases
                         => releases' = releases]_vars

\* two forced reanalyses of one version with the same analysis both answered
\* 200 and the store holds the one row of that analysis
C20_Witness ==
    \E p, q \in Tasks :
        /\ p # q
        /\ Forced(p) /\ Forced(q) /\ request[p] = request[q]
        /\ reply[p] = 200 /\ reply[q] = 200
        /\ "stored" \in Steps(p) /\ "stored" \in Steps(q)
        /\ analysis[p] = analysis[q]
        /\ releases = {ReleaseRow(request[p], new_releases[p][1], analysis[p])}
        /\ notifications = <<>> /\ slack = <<>> /\ tickets = <<>>

\* a version of the comparison request is, or is not, in the store
Present(version) == GetRelease(releases, version).found

\* the versions of the request that the store lacks, as the message names them
AbsentNames ==
    IF ~Present(call.version1) /\ ~Present(call.version2)
    THEN call.version1 \o ", " \o call.version2
    ELSE IF ~Present(call.version1) THEN call.version1
    ELSE call.version2

\* C21: compare_versions with a version absent from the store returns, without
\* raising and without a completion call, a result whose error names exactly
\* the absent versions: the one that is absent, or both in request order.
C21_MissingVersionsNamed ==
    (/\ call.op = "compare" /\ call.done
     /\ ~Present(call.version1) \/ ~Present(call.version2))
       => /\ ~call.result.out.raised
          /\ ~call.result.called
          /\ DictGet(call.result.out.v, "error", JNull)
                = JStr("Version(s) not found: " \o AbsentNames)

\* only the second version is absent and the error names it alone
C21_Witness ==
    /\ call.op = "compare" /\ call.done
    /\ Present(call.version1) /\ ~Present(call.version2)
    /\ call.version2 = VersionNames[2]
    /\ DictGet(call.result.out.v, "error", JNull)
          = JStr("Version(s) not found: v2.13.1")
    /\ ~call.result.called

\* C22 as claimed: compare_versions with both versions in the store never
\* raises, and when the completion call raised or its text is unparseable
\* after the repair the result carries a non-empty error.
C22_CompareNeverRaises ==
    (/\ call.op = "compare" /\ call.done
     /\ Present(call.version1) /\ Present(call.version2))
       => /\ ~call.result.out.raised
          /\ Unrecoverable(call.completion)
                => Truthy(DictGet(call.result.out.v, "error", JNull))

\* the text holds no brace
BraceFree(toks) == \A i \in 1..Len(toks) : toks[i] \notin {P("{"), P("}")}

\* C23: the parser given the serialization of a JSON object followed by
\* trailing text that holds no brace returns that object: the direct parse
\* fails on the extra data (or succeeds when the cleaning removed it), the
\* text is cut after its last closing brace and parsed again.
C23_TrailingGarbageRecovered ==
    \A obj \in JsonObjects, rest \in TrailingTexts :
        (/\ call.op = "parse" /\ call.done
         /\ call.text = Dumps(obj) \o rest
         /\ BraceFree(rest))
           => call.result.out = Return(obj)

\* '{"a": 1}TRAILING_GARBAGE' failed the direct parse and gave {"a": 1}
C23_Witness ==
    /\ call.op = "parse" /\ call.done
    /\ call.text = Dumps(JObj(<<JPair("a", JNum("1"))>>)) \o <<Prose("TRAILING_GARBAGE")>>
    /\ ~Loads(CleanText(call.text)).ok
    /\ call.result.out = Return(JObj(<<JPair("a", JNum("1"))>>))

\* the list fields of the structure each caller of the parser works with
ContextLists(context) ==
    CASE context = "analysis" -> ListFields
      [] context = "resources" -> {"documentation", "kb_articles", "videos"}
      [] context = "comparison" -> {"major_changes"}

\* C24 as claimed: for a text that stays unparseable after the truncation
\* retry the parser returns, without raising, the fallback of the calling
\* context: the list fields of that context are empty lists and error is a
\* non-empty string, the message of the first parse failure.
C24_ContextFallback ==
    (call.op = "parse" /\ call.done /\ Unparseable(call.text))
       => /\ ~call.result.out.raised
          /\ IsDict(call.result.out.v)
          /\ \A field \in ContextLists(call.context) :
                DictGet(call.result.out.v, field, JNull) = EmptyList
          /\ DictGet(call.result.out.v, "error", JNull)
                = JStr(Loads(CleanText(call.text)).msg)
          /\ Loads(CleanText(call.text)).msg # ""

\* C25 as claimed: _find_resources never raises, and when the lookup call
\* raised or its text is unparseable after the repair, documentation,
\* kb_articles and videos of the result are each an empty list.
C25_ResourcesNeverRaise ==
    (call.op = "resources" /\ call.done)
       => /\ ~call.result.out.raised
          /\ Unrecoverable(call.completion)
                => \A field \in ContextLists("resources") :
                      DictGet(call.result.out.v, field, JNull) = EmptyList

\* C26: the step that ends notify_error, whether the post to the team channel
\* succeeded or failed, returns the aborted run to the scheduler: the task is
\* idle with the error its except clause caught, the only thing the step may
\* add is the alert on the team channel, and no task ever ends otherwise.
C26_AlertNeverPropagates ==
    [][\A p \in Tasks :
          /\ pc'[p] \notin {"raised"}
          /\ (pc[p] = "alert" /\ pc'[p] # "alert" /\ error'[p] # "cancelled")
                => /\ pc'[p] = "idle"
                   /\ error'[p] = error[p]
                   /\ UNCHANGED <<releases, notifications, tickets, log>>
                   /\ \/ slack' = slack /\ faults' = faults + 1
                      \/ /\ faults' = faults
                         /\ slack' = Append(slack, [channel |-> TeamChannel,
                                                    version |-> "",
                                                    text |-> error[p],
                                                    blocks |-> <<>>])]_vars

\* an aborted run is over although its alert could not be posted
C26_Witness ==
    \E p \in Tasks :
        /\ pc[p] = "idle" /\ request[p] = ""
        /\ error[p] \in RouterOrEscalationErrors
        /\ faults = 1
        /\ Alerts(error[p]) = {}

\* the entries of a sequence of posts, or of records, for a version on a
\* channel
On(entries, version, channel) ==
    {k \in 1..Len(entries) :
        entries[k].version = version /\ entries[k].channel = channel}

\* the positions in a task's steps of a step of these kinds for the version
StepsAt(steps, kinds, version) ==
    {i \in 1..Len(steps) : steps[i].step \in kinds /\ steps[i].version = version}

\* C27 as claimed, the 'vice versa': the record does not depend on the post,
\* a post that failed is followed by the record step all the same.
C27_RecordIndependentOfPost ==
    [][\A p \in Tasks :
          (/\ pc[p] = "notify" /\ pc'[p] # "notify"
           /\ error'[p] \notin {"cancelled", "render failed"})
             => pc'[p] = "record"]_vars

\* C27 amended: the record is attempted only after the post succeeded, so a
\* channel never holds fewer posts of a version than the log holds records
\* of it; nothing is rolled back (no post and no record is ever removed); and
\* a task whose post or record failed for a version makes no second attempt
\* for it, so a post whose record failed stays without a record of that task.
C27_PostThenRecordNoRollback ==
    [][/\ \A k \in 1..Len(notifications') :
             Cardinality(On(notifications', notifications'[k].version,
                            notifications'[k].channel))
                <= Cardinality(On(slack', notifications'[k].version,
                                  notifications'[k].channel))
       /\ SubSeq(slack', 1, Len(slack)) = slack
       /\ SubSeq(notifications', 1, Len(notifications)) = notifications
       /\ \A p \in Tasks :
             /\ (pc'[p] = "record" /\ pc[p] # "record")
                   => /\ pc[p] = "notify"
                      /\ Len(slack') = Len(slack) + 1
                      /\ slack'[Len(slack')].version = Version(p)
             /\ \A k \in 1..Len(log'[p]) :
                   /\ log'[p][k].step = "record_failed"
                         => StepsAt(log'[p], {"recorded"}, log'[p][k].version) = {}
                   /\ log'[p][k].step = "post_failed"
                         => StepsAt(log'[p], {"posted", "recorded", "record_failed"},
                                    log'[p][k].version) = {}]_vars

\* a run is over, the message of its release is on the channel and the log
\* holds no record of it
C27_Witness ==
    \E p \in Tasks :
        /\ pc[p] = "idle" /\ request[p] = "" /\ error[p] = ""
        /\ new_releases[p] # <<>>
        /\ At(p, {"record_failed"}, TagName(new_releases[p][1])) # {}
        /\ Posts(TagName(new_releases[p][1])) # {}
        /\ Records(TagName(new_releases[p][1])) = {}

\* C28: the notification log only grows at its end: a step leaves it as it
\* is or appends one row to it, every record_notification that completes
\* appends exactly one row for its version and channel with the next id,
\* also when that pair is already in the log, and a store_release, of a
\* pipeline run or of a forced reanalysis, leaves the log as it is.
C28_LogAppendOnly ==
    [][/\ SubSeq(notifications', 1, Len(notifications)) = notifications
       /\ Len(notifications') \in {Len(notifications), Len(notifications) + 1}
       /\ \A p \in Tasks :
             /\ (pc[p] = "record" /\ StepsAt(log'[p], {"recorded"}, Version(p))
                                        # StepsAt(log[p], {"recorded"}, Version(p)))
                   => notifications'
                         = Append(notifications,
                                  [id |-> Len(notifications) + 1,
                                   version |-> Version(p),
                                   channel |-> Route(analysis[p]).channel])
             /\ StoredBy(p) => notifications' = notifications
             /\ Forced(p) /\ pc'[p] # pc[p] => notifications' = notifications]_vars

\* the same version and channel recorded twice, as two rows
C28_Witness ==
    /\ Len(notifications) = 2
    /\ notifications[1].id = 1 /\ notifications[2].id = 2
    /\ notifications[1].version = notifications[2].version
    /\ notifications[1].channel = notifications[2].channel
    /\ \E r \in releases : r.version = notifications[1].version

\* the claimed table: Jira priority, ServiceNow urgency, ServiceNow impact.
\* The ServiceNow scale has three codes (1 high, 2 medium, 3 low): normal
\* and low both take its lowest.
PriorityTable(name) ==
    CASE name = "critical" -> <<"Highest", "1", "1">>
      [] name = "important" -> <<"High", "2", "2">>
      [] name = "normal" -> <<"Medium", "3", "3">>
      [] name = "low" -> <<"Low", "3", "3">>

ReleaseTypes == {JStr(name) : name \in {"major", "minor", "patch", "unknown"}}

Severities == {JStr(name) : name \in {"critical", "important", "normal", "low", "unknown"}}

InDataModel(a) ==
    /\ DictGet(a, "release_type", JNull) \in ReleaseTypes
    /\ Severity(a) \in Severities

\* C30 as claimed: whatever the completion service answers, the Analysis a
\* task got from analyze_release and the Analysis of every stored release
\* have release_type and severity among the values of the data model.
C30_EnumeratedFields ==
    /\ \A p \in Tasks : analysis[p] # JNull => InDataModel(analysis[p])
    /\ \A row \in releases : InDataModel(Loads(row.analysis).v)

\* the versions the upstream feed holds
UpstreamVersions == {TagName(upstream[i]) : i \in 1..Len(upstream)}

\* a completed compare or search request: the call just made is one of them
\* (a passing second changes call.now and is not a request)
ReadRequestDone ==
    /\ call'.op \in {"compare", "search"}
    /\ call'.now = call.now

\* C31: a comparison request, whether a version is missing, the comparison
\* succeeds, the completion call fails or the response is unparseable, and a
\* search request leave the rows of table releases (versions, payloads,
\* analyses, timestamps) and the notification log as they were; the store
\* never holds a row other than an upstream release, so no comparison
\* result is kept in it.
C31_ReadsLeaveStore ==
    [][ /\ ReadRequestDone => releases' = releases /\ notifications' = notifications
        /\ {r.version : r \in releases'} \subseteq UpstreamVersions ]_vars

\* a comparison of two stored versions returned a result without an error,
\* over a store with a release and a notification record
C31_Witness ==
    /\ call.op = "compare"
    /\ ~call.out.raised
    /\ ~HasKey(call.out.v, "error")
    /\ HasKey(call.out.v, "risk_level")
    /\ Present(call.rows[1]) /\ Present(call.rows[2])
    /\ notifications # <<>>

\* the row of a stored version
RowOf(rows, version) == CHOOSE r \in rows : r.version = version

\* a completed store_release of a version the store already held
Restored ==
    /\ call'.op = "store"
    /\ call'.now = call.now
    /\ Present(call'.rows[1])

\* C34: store_release on a version already stored sets updated_at to the
\* time of the call and leaves created_at as it was, so the result of
\* get_latest_release and the order get_all_releases returns do not change.
C34_RestoreKeepsCreatedAt ==
    [][ Restored =>
          /\ RowOf(releases', call'.rows[1]).updated_at = call.now
          /\ RowOf(releases', call'.rows[1]).created_at
                = RowOf(releases, call'.rows[1]).created_at
          /\ GetLatestRelease(releases') = GetLatestRelease(releases)
          /\ GetAllReleases(releases', 100) = GetAllReleases(releases, 100) ]_vars

\* C32: in every state, with pipeline runs and forced reanalyses interleaved,
\* every row of the notification log names a version that has a row in table
\* releases.
C32_RecordsReferToStored ==
    \A k \in 1..Len(notifications) : Present(notifications[k].version)

\* a pipeline run recorded its notification for a version that a forced
\* reanalysis stored as well
C32_Witness ==
    \E p, q \in Tasks :
        /\ p # q
        /\ request[p] = "" /\ Forced(q)
        /\ At(p, {"recorded"}, request[q]) # {}
        /\ At(q, {"stored"}, request[q]) # {}
        /\ Records(request[q]) # {}
        /\ Present(request[q])

\* the version is stored and no pipeline run under way has it in its batch:
\* every run that could still handle it would be a later run
SettledIn(rows, at, asked, batches, version) ==
    /\ GetRelease(rows, version).found
    /\ \A q \in DOMAIN at :
          \/ asked[q] # ""
          \/ at[q] = "idle"
          \/ \A i \in 1..Len(batches[q]) : TagName(batches[q][i]) # version

Settled(version) == SettledIn(releases, pc, request, new_releases, version)

\* the create requests made for the version
TicketsFor(entries, version) ==
    {k \in 1..Len(entries) : entries[k].version = version}

\* C33: once a version is in the store and the runs that had it in their
\* batch are over, whether or not it was ever notified (its post failed, or
\* its run stopped between the store and the notification), it stays so and
\* no later step posts a notification for it, records one, or makes a ticket
\* request for it.
C33_StoredNeverNotifiedLater ==
    [][\A i \in 1..Len(upstream) :
          LET version == TagName(upstream[i]) IN
          Settled(version) =>
             /\ SettledIn(releases', pc', request', new_releases', version)
             /\ On(slack', version, CriticalChannel) = On(slack, version, CriticalChannel)
             /\ On(slack', version, ReleasesChannel) = On(slack, version, ReleasesChannel)
             /\ Records(version)' = Records(version)
             /\ TicketsFor(tickets', version) = TicketsFor(tickets, version)]_vars

\* a run stored the version and was over before its notification was posted;
\* a later run found nothing to do; the version has no post and no record
C33_Witness ==
    \E p, q \in Tasks : \E i \in 1..Len(upstream) :
        LET version == TagName(upstream[i]) IN
        /\ p # q
        /\ request[p] = "" /\ pc[p] = "idle" /\ error[p] # ""
        /\ At(p, {"stored"}, version) # {}
        /\ At(p, {"posted"}, version) = {}
        /\ q \in started /\ request[q] = "" /\ pc[q] = "idle" /\ error[q] = ""
        /\ new_releases[q] = <<>>
        /\ Settled(version)
        /\ Posts(version) = {} /\ Records(version) = {}
        /\ TicketsFor(tickets, version) = {}

\* task p is a forced reanalysis that has stored its version
ForceStored(p) == Forced(p) /\ At(p, {"stored"}, request[p]) # {}

\* task q is a pipeline run that is over, nothing having failed anywhere
CleanRunEnded(q) ==
    /\ q \in started
    /\ request[q] = ""
    /\ pc[q] = "idle"
    /\ error[q] = ""
    /\ faults = 0

\* C35 as claimed: a version that a forced reanalysis stored has a
\* notification on a release channel once a pipeline run is over without any
\* failure, whether the forced store came before the run or during it.
C35_ForcedStillNotified ==
    \A p, q \in Tasks :
        (ForceStored(p) /\ CleanRunEnded(q)) => Posts(request[p]) # {}

\* the version of the last release of the batch of task q
LastOf(q) == TagName(new_releases[q][Len(new_releases[q])])

\* C35 amended: a forced reanalysis acts on pipeline runs through the store
\* only.  A run that asks the detector after the forced store does not get
\* the version and never handles it.  A run that had the version in its batch
\* is not touched by the forced handler's steps, posts the notification at
\* its notify step whatever the store holds, and when it is over without
\* failure the version has its post and record, and its create requests in
\* every enabled system if the run's analysis is critical.
C35_ForcedHidesFromLaterRuns ==
    /\ [](\A q \in Tasks : \A i \in 1..Len(upstream) :
            (CleanRunEnded(q) /\ TagName(upstream[i]) \in Batch(q))
               => /\ At(q, {"posted"}, TagName(upstream[i])) # {}
                  /\ Posts(TagName(upstream[i])) # {}
                  /\ Records(TagName(upstream[i])) # {}
                  /\ (LastOf(q) = TagName(upstream[i])
                        /\ Severity(analysis[q]) = JStr("critical"))
                        => \A system \in enabled :
                              Attempts(system, TagName(upstream[i])) # {})
    /\ [][\A p, q \in Tasks :
            /\ (ForceStored(p) /\ request[q] = ""
                 /\ pc[q] = "check" /\ pc'[q] # "check")
                  => /\ \A i \in 1..Len(new_releases'[q]) :
                           TagName(new_releases'[q][i]) # request[p]
                     /\ log'[q] = <<>>
            /\ (p # q /\ request'[p] # "" /\ pc'[p] # pc[p])
                  => /\ pc'[q] = pc[q] /\ idx'[q] = idx[q]
                     /\ new_releases'[q] = new_releases[q]
                     /\ analysis'[q] = analysis[q]
                     /\ log'[q] = log[q]
            /\ (request[q] = "" /\ pc[q] = "notify" /\ pc'[q] = "record")
                  => Len(slack') = Len(slack) + 1
                     /\ slack'[Len(slack')].version = Version(q)]_vars

\* a forced reanalysis stored a version the store lacked; the pipeline run
\* that followed found nothing new and ended without failure; the version
\* has no post, no record and no create request
C35_Witness ==
    \E p, q \in Tasks :
        /\ ForceStored(p) /\ reply[p] = 200
        /\ CleanRunEnded(q)
        /\ new_releases[q] = <<>> /\ log[q] = <<>>
        /\ Present(request[p])
        /\ Posts(request[p]) = {} /\ Records(request[p]) = {}
        /\ TicketsFor(tickets, request[p]) = {}

\* the severity of the analysis the store holds for the version
StoredSeverity(version) == Severity(GetRelease(releases, version).analysis)

\* task q, a pipeline run, posts the notification of the release in hand
PostStep(q) ==
    /\ request[q] = ""
    /\ pc[q] = "notify"
    /\ pc'[q] = "record"

\* task q makes a create request for the release in hand
TicketStep(q) ==
    /\ pc[q] \in {"jira", "servicenow"}
    /\ pc'[q] # pc[q]
    /\ Len(tickets') = Len(tickets) + 1

\* C36 as claimed: when a notification is posted or a create request is made
\* for a version, the severity the run uses equals the severity of the
\* analysis the store holds for the version at that moment: the post goes to
\* the channel of the stored severity and a create request is made only when
\* the stored severity is critical.
C36_UsesStoredSeverity ==
    [][\A q \in Tasks :
          /\ PostStep(q)
                => /\ Severity(analysis[q]) = StoredSeverity(Version(q))
                   /\ slack'[Len(slack')].channel
                        = ChannelOf(GetRelease(releases, Version(q)).analysis)
          /\ TicketStep(q)
                => /\ Severity(analysis[q]) = StoredSeverity(Version(q))
                   /\ StoredSeverity(Version(q)) = JStr("critical")]_vars

\* C36 amended: the severity used is that of the analysis the run itself
\* produced, which it stored at its store step and keeps until it is done
\* with the release: the post goes to the channel of that severity, a create
\* request is made only when that severity is critical, and it equals the
\* severity the store holds whenever the row of the version is still the one
\* the run wrote.
C36_UsesOwnSeverity ==
    [][\A q \in Tasks :
          /\ PostStep(q)
                => /\ slack'[Len(slack')].version = Version(q)
                   /\ slack'[Len(slack')].channel = ChannelOf(analysis[q])
          /\ TicketStep(q)
                => /\ tickets'[Len(tickets')].version = Version(q)
                   /\ Severity(analysis[q]) = JStr("critical")
          /\ (request[q] = "" /\ StoredBy(q))
                => GetRelease(releases', Version(q)).analysis = analysis[q]
          /\ pc[q] \in {"store", "notify", "record", "jira", "servicenow"}
                => analysis'[q] = analysis[q]
          /\ ((PostStep(q) \/ TicketStep(q))
               /\ ReleaseRow(Version(q), Current(q), analysis[q]) \in releases)
                => Severity(analysis[q]) = StoredSeverity(Version(q))]_vars

\* a pipeline run has posted on the critical channel for a version whose
\* stored analysis, written meanwhile by another handler, is not critical
C36_Witness ==
    \E q \in Tasks :
        /\ request[q] = "" /\ pc[q] = "record"
        /\ Severity(analysis[q]) = JStr("critical")
        /\ StoredSeverity(Version(q)) # JStr("critical")
        /\ slack # <<>>
        /\ slack[Len(slack)].version = Version(q)
        /\ slack[Len(slack)].channel = CriticalChannel


====
